---- MODULE Spec2Model ----
(***************************************************************************)
(* Snapshot monitoring core of zrepl: client/monitor/snapshots.go.         *)
(*                                                                         *)
(* Strings (dataset names, snapshot names, prefixes) are sequences of      *)
(* byte codes, so that slices.Sort and strings.HasPrefix are computed on   *)
(* bytes as in Go.  Durations and instants are integers in clock ticks;    *)
(* Second is the number of ticks in time.Second.                           *)
(***************************************************************************)
EXTENDS Integers, Sequences, FiniteSets, TLC

(***************************************************************************)
(* Bounds of the model.                                                    *)
(***************************************************************************)
\* number of UpdateStatus calls made on one SnapCheck
MaxRuns == 2
\* ticks per time.Second (resolution of the modelled clock)
Second == 2
\* the clock is read between Now0 and Now0 + ClockSpan
ClockSpan == 1
\* largest worker limit handed to WithMaxProcs
MaxProcsBound == 2

(***************************************************************************)
(* Byte strings.                                                           *)
(***************************************************************************)
EmptyStr == <<>>

\* strings.HasPrefix(s, p)
HasPrefix(s, p) == Len(p) <= Len(s) /\ SubSeq(s, 1, Len(p)) = p

\* a < b for Go strings (byte-wise lexicographic order)
RECURSIVE StrLess(_, _)
StrLess(a, b) ==
  IF b = <<>> THEN FALSE
  ELSE IF a = <<>> THEN TRUE
  ELSE IF Head(a) # Head(b) THEN Head(a) < Head(b)
  ELSE StrLess(Tail(a), Tail(b))

StrLeq(a, b) == a = b \/ StrLess(a, b)

\* insert x into the sorted sequence s, after the elements equal to it
RECURSIVE SortedInsert(_, _)
SortedInsert(s, x) ==
  IF s = <<>> THEN <<x>>
  ELSE IF StrLess(x, Head(s)) THEN <<x>> \o s
  ELSE <<Head(s)>> \o SortedInsert(Tail(s), x)

\* slices.Sort left out: the resolver's order is kept
SlicesSort_unsorted(s) == s

\* slices.Sort(datasets)
RECURSIVE SlicesSort(_)
SlicesSort(s) ==
  IF s = <<>> THEN <<>>
  ELSE SortedInsert(SlicesSort(SubSeq(s, 1, Len(s) - 1)), s[Len(s)])

\* zfs.DatasetPath.Length(): number of '/'-separated components
PathLength(name) == Cardinality({k \in 1..Len(name) : name[k] = 47}) + 1

(***************************************************************************)
(* The inventory (zfs): filesystems, the placeholder property, snapshots.  *)
(***************************************************************************)
FsP   == <<112>>                    \* "p"
FsPC  == <<112, 45, 99>>            \* "p-c"
FsPA  == <<112, 47, 97>>            \* "p/a"
FsPAX == <<112, 47, 97, 47, 120>>   \* "p/a/x"
FsPB  == <<112, 47, 98>>            \* "p/b"

Filesystems == {FsP, FsPC, FsPA, FsPAX, FsPB}

SnapD1 == <<100, 49>>   \* "d1"
SnapD2 == <<100, 50>>   \* "d2"
SnapH1 == <<104, 49>>   \* "h1"

PfxD == <<100>>         \* "d"
PfxH == <<104>>         \* "h"

\* the first clock reading of the model
Now0 == 4 * Second

\* zfs.FilesystemVersion: Name and Creation (an instant, in ticks)
Snap(name, creation) == [Name |-> name, Creation |-> creation]

\* what zfs.ZFSListFilesystemVersions returns for a filesystem
InventorySnapshots(fs) ==
  CASE fs = FsPA  -> << Snap(SnapD1, Now0 - 3 * Second),
                        Snap(SnapH1, Now0 - Second - 1),
                        Snap(SnapD2, Now0) >>
    [] fs = FsPB  -> << Snap(SnapH1, Now0 - 2 * Second),
                        Snap(SnapD1, Now0 - 2 * Second) >>
    [] fs = FsPAX -> << Snap(SnapD1, Now0 - 1) >>
    [] OTHER      -> << >>

\* the placeholder property of a filesystem: value and source
PlaceholderProp(fs) ==
  IF fs = FsPA THEN [Value |-> "on", Source |-> "local"]
  ELSE IF fs = FsPB THEN [Value |-> "on", Source |-> "inherited"]
  ELSE [Value |-> "", Source |-> "none"]

(***************************************************************************)
(* Job definitions (config.JobEnum) and their monitor rules.               *)
(***************************************************************************)
\* config.MonitorCreation / config.MonitorCount
Rule(p, w, c) == [Prefix |-> p, Warning |-> w, Critical |-> c]

Monitor(latest, oldest, count) ==
  [Latest |-> latest, Oldest |-> oldest, Count |-> count]

JobDef(name, type, filesystems, rootFs, monitor) ==
  [name |-> name, type |-> type, filesystems |-> filesystems,
   rootFs |-> rootFs, monitor |-> monitor]

AgeRulesWide == << Rule(EmptyStr, 0, 5 * Second) >>
AgeRulesTwo  == << Rule(PfxD, 2 * Second, 3 * Second),
                   Rule(EmptyStr, Second, 5 * Second) >>
AgeRulesHD   == << Rule(PfxH, 0, 5 * Second), Rule(PfxD, 0, 5 * Second) >>
CountRulesWide == << Rule(EmptyStr, 0, 9) >>
CountRulesTwo  == << Rule(PfxD, 2, 3), Rule(PfxH, 0, 2) >>

Jobs ==
  { JobDef("push", "push", {FsPC, FsPA, FsPB}, EmptyStr,
           Monitor(AgeRulesWide, AgeRulesWide, CountRulesWide)),
    JobDef("snap", "snap", {FsPA, FsPB}, EmptyStr,
           Monitor(AgeRulesTwo, AgeRulesTwo, CountRulesTwo)),
    JobDef("pull", "pull", {}, FsP,
           Monitor(AgeRulesHD, AgeRulesWide, CountRulesTwo)),
    JobDef("sink", "sink", {}, FsP,
           Monitor(<<>>, <<>>, <<>>)),
    \* a filter that accepts nothing the pool holds; no rules for the oldest
    JobDef("source", "source", {}, EmptyStr,
           Monitor(AgeRulesHD, <<>>, CountRulesTwo)),
    \* a filter that accepts one filesystem, which has no snapshots
    JobDef("bare", "snap", {FsPC}, EmptyStr,
           Monitor(AgeRulesWide, AgeRulesWide, CountRulesWide)) }

(***************************************************************************)
(* Values.                                                                 *)
(***************************************************************************)
\* error values; NilErr is Go's nil error
Err(kind, fs) == [kind |-> kind, fs |-> fs]
NilErr == Err("nil", EmptyStr)
ErrNoRules == Err("no monitor rules or cli args defined", EmptyStr)
ErrResolve == Err("resolve", EmptyStr)
ErrUnknownJob == Err("unknown job type", EmptyStr)
ErrLoad(fs) == Err("load", fs)

\* one update handed to monitoringplugin.Response.UpdateStatus
\* kind is the message format, type the snapshotType() it prints ("" if none)
Update(sev, kind, type, fs, pfx, snap, n, limit) ==
  [sev |-> sev, kind |-> kind, type |-> type, job |-> "", fs |-> fs,
   prefix |-> pfx, snap |-> snap, n |-> n, limit |-> limit]

\* groupItem; Oldest and Latest are indices into the snapshot list, 0 is nil
GroupItem(count, oldestIdx, latestIdx) ==
  [Count |-> count, Oldest |-> oldestIdx, Latest |-> latestIdx]

\* all orders in which the inventory can enumerate its filesystems
Listings ==
  { l \in [1..Cardinality(Filesystems) -> Filesystems] :
      \A a, b \in 1..Cardinality(Filesystems) : a # b => l[a] # l[b] }

\* thresholds the caller passes to WithThresholds / WithCountThresholds
AgeThresholds == { <<Second, 2 * Second>> }
CountThresholds == { <<1, 2>>, <<0, 9>> }
Prefixes == { EmptyStr, PfxD }

(***************************************************************************)
(* State.                                                                  *)
(***************************************************************************)
VARIABLES
  \* fields of SnapCheck
  counts, oldest, job, prefix, warn, crit, countWarn, countCrit,
  age, snapCount, snapName, failed,
  datasets,          \* map dataset name -> snapshot list
  orderedDatasets,   \* sequence of dataset names
  orderedNil,        \* orderedDatasets == nil
  maxProcs,
  resp,              \* the updates the response (sink) received, in order
  \* the call in progress
  pc,                \* position of the calling goroutine
  jobConfig,         \* the *config.JobEnum argument
  rules,             \* rules of checkCounts / checkCreation
  dsIdx,             \* index of the dataset being evaluated
  ruleIdx,           \* index of the rule to apply next
  grouped,           \* result of groupSnapshots for the dataset
  \* preloadSnapshots: the errgroup
  loopIdx,           \* index of the dataset the dispatch loop is at
  tasks,             \* state of the goroutine of each dataset index
  ctxErr,            \* the errgroup context is cancelled
  gErr,              \* errgroup's first error
  \* environment
  now,               \* last reading of the clock
  \* history
  runs,              \* number of UpdateStatus calls so far
  runStart,          \* Len(resp) when the current run started
  ret,               \* what the last UpdateStatus returned
  runErr,            \* what Run returned in the current run
  called,            \* the With... setters the caller used
  applied,           \* rule applications of the current run
  startClean,        \* failed, age, snapName, snapCount were zero at start
  loadFailed,        \* a snapshot load failed in the current run
  enumSorted,        \* the resolver's list was already in sorted order
  preloadRun,        \* the run that went through preloadSnapshots
  lateDispatch,      \* tasks dispatched while ctxErr was set
  lateStore,         \* task indices that stored while ctxErr was set
  prevApplied,       \* rule applications of the run before the current one
  prevRet,           \* what the UpdateStatus before the current one returned
  lastReset,         \* the number of runs when Reset was last called
  \* calls of the package's functions on inputs of their own
  gIn,               \* arguments of a groupSnapshots call
  gOut,              \* what that call returned
  rIn,               \* receiver and arguments of an apply...Rule call
  rOut,              \* what that call returned and did to the receiver
  dIn,               \* job and inventory of a jobDatasets call
  dOut,              \* the orderedDatasets that call set
  \* the other components
  namer,             \* a uniqueConcurrentTaskNamer: its mutex and active map
  holders,           \* the goroutines that call UniqueConcurrentTaskName
  cmd                \* a zfscmd.Cmd and what its callers saw

cfgVars == <<counts, oldest, prefix, warn, crit, countWarn, countCrit,
             maxProcs, called>>
sumVars == <<age, snapCount, snapName, failed>>
cacheVars == <<datasets, orderedDatasets, orderedNil>>
evalVars == <<rules, dsIdx, ruleIdx, grouped, applied>>
loadVars == <<loopIdx, tasks, ctxErr, gErr, lateDispatch, lateStore,
             enumSorted, preloadRun>>
callVars == <<job, jobConfig, runs, runStart, ret, runErr, startClean,
              loadFailed>>

libVars == <<dIn, dOut, namer, holders, cmd>>

callsVars == <<gIn, gOut, rIn, rOut, libVars>>

histVars == <<prevApplied, prevRet, lastReset>>

vars == <<cfgVars, sumVars, cacheVars, evalVars, loadVars, callVars,
          resp, pc, now, callsVars, histVars>>

NoJob == JobDef("", "none", {}, EmptyStr, Monitor(<<>>, <<>>, <<>>))
NoRet == Err("not returned", EmptyStr)

\* no call of groupSnapshots or apply...Rule on inputs of its own
\* CommandContext(ctx, name, arg...): startedAt is the zero time
NewCmd == [startedAt |-> 0, ran |-> FALSE, succeeded |-> FALSE,
           process |-> "none", log |-> <<>>]

NoLibCalls ==
  /\ dIn = [set |-> FALSE]
  /\ dOut = [done |-> FALSE]
  /\ namer = [mtx |-> 0, active |-> <<>>]
  /\ holders = <<>>
  /\ cmd = NewCmd

NoCalls ==
  /\ gIn = [snapshots |-> <<>>, prefixes |-> <<>>]
  /\ gOut = [done |-> FALSE, grouped |-> <<>>]
  /\ rIn = [set |-> FALSE]
  /\ rOut = [done |-> FALSE]
  /\ NoLibCalls

\* NewSnapCheck(resp): zero values, WithMaxProcs(0) = runtime.GOMAXPROCS(0)
NewSnapCheck ==
  /\ counts = FALSE /\ oldest = FALSE
  /\ job = "" /\ prefix = EmptyStr
  /\ warn = 0 /\ crit = 0 /\ countWarn = 0 /\ countCrit = 0
  /\ age = 0 /\ snapCount = 0 /\ snapName = EmptyStr /\ failed = FALSE
  /\ datasets = <<>> /\ orderedDatasets = <<>> /\ orderedNil = TRUE
  /\ maxProcs \in 1..MaxProcsBound
  /\ resp = <<>>
  /\ pc = "idle" /\ jobConfig = NoJob
  /\ rules = <<>> /\ dsIdx = 0 /\ ruleIdx = 0 /\ grouped = <<>>
  /\ loopIdx = 0 /\ tasks = <<>> /\ ctxErr = FALSE /\ gErr = NilErr
  /\ now = Now0
  /\ runs = 0 /\ runStart = 0 /\ ret = NoRet /\ runErr = NoRet
  /\ called = {} /\ applied = <<>>
  /\ startClean = TRUE /\ loadFailed = FALSE
  /\ enumSorted = TRUE /\ preloadRun = 0
  /\ lateDispatch = 0 /\ lateStore = {}
  /\ prevApplied = <<>> /\ prevRet = NoRet /\ lastReset = 0

Init == NewSnapCheck /\ NoCalls

(***************************************************************************)
(* The builder setters.  The caller configures the check before its first  *)
(* run.                                                                    *)
(***************************************************************************)
Configuring == pc = "idle" /\ runs = 0

WithPrefix(s) ==
  /\ Configuring
  /\ prefix' = s
  /\ called' = called \cup {"WithPrefix"}
  /\ UNCHANGED <<counts, oldest, warn, crit, countWarn, countCrit, maxProcs>>
  /\ UNCHANGED <<sumVars, cacheVars, evalVars, loadVars, callVars,
                 resp, pc, now, callsVars, histVars>>

WithThresholds(w, c) ==
  /\ Configuring
  /\ warn' = w /\ crit' = c
  /\ called' = called \cup {"WithThresholds"}
  /\ UNCHANGED <<counts, oldest, prefix, countWarn, countCrit, maxProcs>>
  /\ UNCHANGED <<sumVars, cacheVars, evalVars, loadVars, callVars,
                 resp, pc, now, callsVars, histVars>>

WithCountThresholds(w, c) ==
  /\ Configuring
  /\ countWarn' = w /\ countCrit' = c
  /\ called' = called \cup {"WithCountThresholds"}
  /\ UNCHANGED <<counts, oldest, prefix, warn, crit, maxProcs>>
  /\ UNCHANGED <<sumVars, cacheVars, evalVars, loadVars, callVars,
                 resp, pc, now, callsVars, histVars>>

WithOldest(v) ==
  /\ Configuring
  /\ oldest' = v
  /\ UNCHANGED <<counts, prefix, warn, crit, countWarn, countCrit, maxProcs,
                 called>>
  /\ UNCHANGED <<sumVars, cacheVars, evalVars, loadVars, callVars,
                 resp, pc, now, callsVars, histVars>>

WithCounts(v) ==
  /\ Configuring
  /\ counts' = v
  /\ UNCHANGED <<oldest, prefix, warn, crit, countWarn, countCrit, maxProcs,
                 called>>
  /\ UNCHANGED <<sumVars, cacheVars, evalVars, loadVars, callVars,
                 resp, pc, now, callsVars, histVars>>

\* WithMaxProcs(n); n = 0 takes runtime.GOMAXPROCS(0), whatever the host has
WithMaxProcs(n) ==
  /\ Configuring
  /\ \E gomaxprocs \in 1..MaxProcsBound :
       maxProcs' = IF n = 0 THEN gomaxprocs ELSE n
  /\ UNCHANGED <<counts, oldest, prefix, warn, crit, countWarn, countCrit,
                 called>>
  /\ UNCHANGED <<sumVars, cacheVars, evalVars, loadVars, callVars,
                 resp, pc, now, callsVars, histVars>>

(***************************************************************************)
(* DatasetResolver.                                                        *)
(***************************************************************************)
\* datasetsFromFilter: the listed filesystems the job's filter accepts
datasetsFromFilter(listing, filter) ==
  SelectSeq(listing, LAMBDA fs : fs \in filter)

\* the names zfs.ZFSGetRecursive(rootFs, -1, ...) reports: rootFs and below
UnderRoot(fs, rootFs) == fs = rootFs \/ HasPrefix(fs, rootFs \o <<47>>)

\* a loop that skips every filesystem whose placeholder property is local
datasetsFromRootFs_anyLocal(listing, rootFs, skipN, props) ==
  SelectSeq(listing, LAMBDA fs :
    /\ UnderRoot(fs, rootFs)
    /\ ~ (PathLength(fs) < PathLength(rootFs) + 1 + skipN)
    /\ ~ (props[fs].Source = "local"))

\* datasetsFromRootFs: listing is the iteration order of propsByFS, props
\* the placeholder property of each filesystem
datasetsFromRootFs(listing, rootFs, skipN, props) ==
  SelectSeq(listing, LAMBDA fs :
    /\ UnderRoot(fs, rootFs)
    /\ ~ (PathLength(fs) < PathLength(rootFs) + 1 + skipN)
    /\ ~ (props[fs].Source = "local" /\ props[fs].Value = "on"))

\* the type switch of jobDatasets; err is NilErr when datasets is valid
jobDatasetsSwitch(j, listing, props) ==
  CASE j.type \in {"push", "snap", "source"} ->
         [err |-> NilErr,
          datasets |-> datasetsFromFilter(listing, j.filesystems)]
    [] j.type = "pull" ->
         [err |-> NilErr,
          datasets |-> datasetsFromRootFs(listing, j.rootFs, 0, props)]
    [] j.type = "sink" ->
         [err |-> NilErr,
          datasets |-> datasetsFromRootFs(listing, j.rootFs, 1, props)]
    [] OTHER -> [err |-> ErrUnknownJob, datasets |-> <<>>]

\* the placeholder properties of the inventory
InventoryProps == [fs \in Filesystems |-> PlaceholderProp(fs)]

\* jobDatasets' resolver on the inventory
ResolveDatasets(j, listing) == jobDatasetsSwitch(j, listing, InventoryProps)

(***************************************************************************)
(* PrefixGrouper.                                                          *)
(***************************************************************************)
\* index of the first prefix, from j on, that matches name; 0 if none
RECURSIVE FirstMatch(_, _, _)
FirstMatch(name, prefixes, j) ==
  IF j > Len(prefixes) THEN 0
  ELSE IF prefixes[j] = EmptyStr \/ HasPrefix(name, prefixes[j]) THEN j
  ELSE FirstMatch(name, prefixes, j + 1)

\* what the inner loop does to group g with snapshot i
GroupAdd(snapshots, g, i) ==
  GroupItem(g.Count + 1,
            IF g.Oldest = 0
               \/ snapshots[i].Creation < snapshots[g.Oldest].Creation
            THEN i ELSE g.Oldest,
            IF g.Latest = 0
               \/ snapshots[i].Creation > snapshots[g.Latest].Creation
            THEN i ELSE g.Latest)

\* the inner loop without its break: every matching prefix counts
GroupStep_noBreak(snapshots, prefixes, acc, i) ==
  [j \in DOMAIN acc |->
     IF prefixes[j] = EmptyStr \/ HasPrefix(snapshots[i].Name, prefixes[j])
     THEN GroupAdd(snapshots, acc[j], i) ELSE acc[j]]

\* the inner loop without the `g.Oldest == nil ||` test
GroupStep_noNilTest(snapshots, prefixes, acc, i) ==
  LET j == FirstMatch(snapshots[i].Name, prefixes, 1) IN
  IF j = 0 THEN acc
  ELSE LET g == acc[j]
           o == IF g.Oldest # 0
                   /\ snapshots[i].Creation < snapshots[g.Oldest].Creation
                THEN i ELSE g.Oldest
           l == IF g.Latest = 0
                   \/ snapshots[i].Creation > snapshots[g.Latest].Creation
                THEN i ELSE g.Latest
       IN [acc EXCEPT ![j] = GroupItem(g.Count + 1, o, l)]

\* the inner loop with !After / !Before: the last of equal instants wins
GroupStep_lastWins(snapshots, prefixes, acc, i) ==
  LET j == FirstMatch(snapshots[i].Name, prefixes, 1) IN
  IF j = 0 THEN acc
  ELSE LET g == acc[j]
           o == IF g.Oldest = 0
                   \/ snapshots[i].Creation <= snapshots[g.Oldest].Creation
                THEN i ELSE g.Oldest
           l == IF g.Latest = 0
                   \/ snapshots[i].Creation >= snapshots[g.Latest].Creation
                THEN i ELSE g.Latest
       IN [acc EXCEPT ![j] = GroupItem(g.Count + 1, o, l)]

\* the body of the outer loop of groupSnapshots for snapshot i
GroupStep(snapshots, prefixes, acc, i) ==
  LET j == FirstMatch(snapshots[i].Name, prefixes, 1) IN
  IF j = 0 THEN acc
  ELSE [acc EXCEPT ![j] = GroupAdd(snapshots, acc[j], i)]

RECURSIVE GroupLoop(_, _, _, _)
GroupLoop(snapshots, prefixes, acc, i) ==
  IF i > Len(snapshots) THEN acc
  ELSE GroupLoop(snapshots, prefixes,
                 GroupStep(snapshots, prefixes, acc, i), i + 1)

groupSnapshots(snapshots, prefixes) ==
  GroupLoop(snapshots, prefixes,
            [j \in 1..Len(prefixes) |-> GroupItem(0, 0, 0)], 1)

\* groupItem.Snapshot(oldest)
GroupSnapshot(g, old) == IF old THEN g.Oldest ELSE g.Latest

RulePrefixes(rs) == [i \in 1..Len(rs) |-> rs[i].Prefix]

(***************************************************************************)
(* Rule lists.                                                             *)
(***************************************************************************)
\* an override that also stands in for an empty rule list
overrideCountRules_fallback(j, pfx, cw, cc) ==
  IF pfx # EmptyStr \/ Len(j.monitor.Count) = 0
  THEN [err |-> NilErr, rules |-> << Rule(pfx, cw, cc) >>]
  ELSE [err |-> NilErr, rules |-> j.monitor.Count]

overrideCountRules(j, pfx, cw, cc) ==
  IF pfx # EmptyStr
  THEN [err |-> NilErr, rules |-> << Rule(pfx, cw, cc) >>]
  ELSE IF Len(j.monitor.Count) = 0
  THEN [err |-> ErrNoRules, rules |-> <<>>]
  ELSE [err |-> NilErr, rules |-> j.monitor.Count]

rulesByCreation(j, old) ==
  IF old THEN j.monitor.Oldest ELSE j.monitor.Latest

\* the override taken whenever a critical threshold was handed over
overrideAgeRules_byThreshold(rs, pfx, w, c) ==
  IF pfx # EmptyStr \/ c # 0
  THEN [err |-> NilErr, rules |-> << Rule(pfx, w, c) >>]
  ELSE IF Len(rs) = 0
  THEN [err |-> ErrNoRules, rules |-> <<>>]
  ELSE [err |-> NilErr, rules |-> rs]

overrideAgeRules(rs, pfx, w, c) ==
  IF pfx # EmptyStr
  THEN [err |-> NilErr, rules |-> << Rule(pfx, w, c) >>]
  ELSE IF Len(rs) = 0
  THEN [err |-> ErrNoRules, rules |-> <<>>]
  ELSE [err |-> NilErr, rules |-> rs]

(***************************************************************************)
(* RuleEvaluator.  The operators below work on the record st of the        *)
(* fields a rule application reads and writes:                             *)
(*   st.failed, st.snapCount, st.age, st.snapName, st.resp.                *)
(***************************************************************************)
\* self.resp.UpdateStatus(statusCode, statusMessage)
respUpdateStatus(st, u) == [st EXCEPT !.resp = Append(st.resp, u)]

\* SnapCheck.updateResponse
updateResponse(st, u) ==
  respUpdateStatus([st EXCEPT !.failed = st.failed \/ u.sev # "OK"], u)

\* SnapCheck.updateStatus: prefixes the message with the job name
updateStatus(st, jobName, u) ==
  updateResponse(st, [u EXCEPT !.job = jobName])

\* the result of applying one rule: continue with the next rule or not
Applied(cont, st) == [cont |-> cont, st |-> st]

\* the switch with its first two cases in the other order
applyCountRule_warningFirst(st, jobName, rule, fsName, g) ==
  IF g.Count = 0 /\ rule.Prefix = EmptyStr THEN Applied(TRUE, st)
  ELSE IF g.Count = 0
  THEN Applied(FALSE, respUpdateStatus(st,
         Update("CRITICAL", "noSnapshots", "", fsName, rule.Prefix,
                EmptyStr, 0, 0)))
  ELSE IF rule.Warning > 0 /\ g.Count >= rule.Warning
  THEN Applied(FALSE, updateStatus(st, jobName,
         Update("WARNING", "count", "", fsName, rule.Prefix,
                EmptyStr, g.Count, rule.Warning)))
  ELSE IF g.Count >= rule.Critical
  THEN Applied(FALSE, updateStatus(st, jobName,
         Update("CRITICAL", "count", "", fsName, rule.Prefix,
                EmptyStr, g.Count, rule.Critical)))
  ELSE Applied(TRUE, [st EXCEPT !.snapCount = st.snapCount + g.Count])

\* a default case that assigns the count instead of adding it
applyCountRule_assign(st, jobName, rule, fsName, g) ==
  IF g.Count = 0 /\ rule.Prefix = EmptyStr THEN Applied(TRUE, st)
  ELSE IF g.Count = 0
  THEN Applied(FALSE, respUpdateStatus(st,
         Update("CRITICAL", "noSnapshots", "", fsName, rule.Prefix,
                EmptyStr, 0, 0)))
  ELSE IF g.Count >= rule.Critical
  THEN Applied(FALSE, updateStatus(st, jobName,
         Update("CRITICAL", "count", "", fsName, rule.Prefix,
                EmptyStr, g.Count, rule.Critical)))
  ELSE IF rule.Warning > 0 /\ g.Count >= rule.Warning
  THEN Applied(FALSE, updateStatus(st, jobName,
         Update("WARNING", "count", "", fsName, rule.Prefix,
                EmptyStr, g.Count, rule.Warning)))
  ELSE Applied(TRUE, [st EXCEPT !.snapCount = g.Count])

applyCountRule(st, jobName, rule, fsName, g) ==
  IF g.Count = 0 /\ rule.Prefix = EmptyStr THEN Applied(TRUE, st)
  ELSE IF g.Count = 0
  THEN Applied(FALSE, respUpdateStatus(st,
         Update("CRITICAL", "noSnapshots", "", fsName, rule.Prefix,
                EmptyStr, 0, 0)))
  ELSE IF g.Count >= rule.Critical
  THEN Applied(FALSE, updateStatus(st, jobName,
         Update("CRITICAL", "count", "", fsName, rule.Prefix,
                EmptyStr, g.Count, rule.Critical)))
  ELSE IF rule.Warning > 0 /\ g.Count >= rule.Warning
  THEN Applied(FALSE, updateStatus(st, jobName,
         Update("WARNING", "count", "", fsName, rule.Prefix,
                EmptyStr, g.Count, rule.Warning)))
  ELSE Applied(TRUE, [st EXCEPT !.snapCount = st.snapCount + g.Count])

\* time.Duration.Round(time.Second): halfway values away from zero
TruncateSecond_round(d) ==
  IF d >= 0 THEN ((d + (Second \div 2)) \div Second) * Second
  ELSE 0 - ((((0 - d) + (Second \div 2)) \div Second) * Second)

\* time.Duration.Truncate(time.Second): rounds toward zero
TruncateSecond(d) ==
  IF d >= 0 THEN d - (d % Second) ELSE 0 - ((0 - d) - ((0 - d) % Second))

\* SnapCheck.snapshotType
snapshotType(old) == IF old THEN "oldest" ELSE "latest"

\* an applyCreationRule whose nil branch does not look at the prefix
applyCreationRule_nilIsMissing(st, jobName, old, rule, snapshots, snap, fsName, t) ==
  IF snap = 0
  THEN Applied(FALSE, respUpdateStatus(st,
         Update("CRITICAL", "noSnapshots", "", fsName, rule.Prefix,
                EmptyStr, 0, 0)))
  ELSE LET d == TruncateSecond(t - snapshots[snap].Creation)
           name == snapshots[snap].Name
       IN IF d >= rule.Critical
          THEN Applied(FALSE, updateStatus(st, jobName,
                 Update("CRITICAL", "tooOld", snapshotType(old), fsName,
                        EmptyStr, name, d, rule.Critical)))
          ELSE IF rule.Warning > 0 /\ d >= rule.Warning
          THEN Applied(FALSE, updateStatus(st, jobName,
                 Update("WARNING", "tooOld", snapshotType(old), fsName,
                        EmptyStr, name, d, rule.Warning)))
          ELSE IF \/ st.age = 0
                  \/ old /\ d > st.age
                  \/ ~old /\ d < st.age
          THEN Applied(TRUE, [st EXCEPT !.age = d, !.snapName = name])
          ELSE Applied(TRUE, st)

\* snap is a snapshot index into snapshots, 0 for nil; t is time.Now()
applyCreationRule(st, jobName, old, rule, snapshots, snap, fsName, t) ==
  IF snap = 0 /\ rule.Prefix = EmptyStr THEN Applied(TRUE, st)
  ELSE IF snap = 0
  THEN Applied(FALSE, respUpdateStatus(st,
         Update("CRITICAL", "noSnapshots", "", fsName, rule.Prefix,
                EmptyStr, 0, 0)))
  ELSE LET d == TruncateSecond(t - snapshots[snap].Creation)
           name == snapshots[snap].Name
       IN IF d >= rule.Critical
          THEN Applied(FALSE, updateStatus(st, jobName,
                 Update("CRITICAL", "tooOld", snapshotType(old), fsName,
                        EmptyStr, name, d, rule.Critical)))
          ELSE IF rule.Warning > 0 /\ d >= rule.Warning
          THEN Applied(FALSE, updateStatus(st, jobName,
                 Update("WARNING", "tooOld", snapshotType(old), fsName,
                        EmptyStr, name, d, rule.Warning)))
          ELSE IF \/ st.age = 0
                  \/ old /\ d > st.age
                  \/ ~old /\ d < st.age
          THEN Applied(TRUE, [st EXCEPT !.age = d, !.snapName = name])
          ELSE Applied(TRUE, st)

\* the switch without its `case self.counts`
summarise_noCountCase(st, jobName, cnts, old) ==
  IF st.failed THEN st
  ELSE updateStatus(st, jobName,
         Update("OK", "age", snapshotType(old), EmptyStr, EmptyStr,
                st.snapName, st.age, 0))

\* the switch at the end of UpdateStatus
summarise(st, jobName, cnts, old) ==
  IF st.failed THEN st
  ELSE IF cnts
  THEN updateStatus(st, jobName,
         Update("OK", "allCount", "", EmptyStr, EmptyStr, EmptyStr,
                st.snapCount, 0))
  ELSE updateStatus(st, jobName,
         Update("OK", "age", snapshotType(old), EmptyStr, EmptyStr,
                st.snapName, st.age, 0))

(***************************************************************************)
(* UpdateStatus and Run.                                                   *)
(***************************************************************************)
\* the caller monitors one job with one SnapCheck
SameJob(j) == runs = 0 \/ j = jobConfig

\* UpdateStatus(jobConfig) enters Run: self.job = j.Name()
UpdateStatus(j) ==
  /\ pc = "idle" /\ runs < MaxRuns /\ SameJob(j)
  /\ job' = j.name /\ jobConfig' = j
  /\ runs' = runs + 1 /\ runStart' = Len(resp)
  /\ ret' = NoRet /\ runErr' = NoRet
  /\ applied' = <<>>
  /\ startClean' = (~failed /\ age = 0 /\ snapName = EmptyStr
                     /\ snapCount = 0)
  /\ loadFailed' = FALSE
  /\ prevApplied' = applied /\ prevRet' = ret
  /\ pc' = "jobDatasets"
  /\ UNCHANGED <<rules, dsIdx, ruleIdx, grouped, lastReset>>
  /\ UNCHANGED <<cfgVars, sumVars, cacheVars, loadVars, resp, now, callsVars>>

\* Run returns err, and UpdateStatus returns it at once
ReturnErr(err) ==
  /\ pc' = "idle" /\ ret' = err /\ runErr' = err
  /\ UNCHANGED <<job, jobConfig, runs, runStart, startClean>>

\* jobDatasets when orderedDatasets is already set: nothing to do
JobDatasetsCached ==
  /\ pc = "jobDatasets" /\ ~orderedNil
  /\ pc' = "check"
  /\ UNCHANGED <<cfgVars, sumVars, cacheVars, evalVars, loadVars, callVars,
                 resp, now, callsVars, histVars>>

\* jobDatasets: the resolver fails (listing, path or filter error)
JobDatasetsFail ==
  /\ pc = "jobDatasets" /\ orderedNil
  /\ ReturnErr(ErrResolve)
  /\ UNCHANGED loadFailed
  /\ UNCHANGED <<cfgVars, sumVars, cacheVars, evalVars, loadVars, resp, now, callsVars, histVars>>

\* a jobDatasets without `if self.orderedDatasets != nil { return }`
JobDatasetsResolve_always(listing) ==
  /\ pc = "jobDatasets"
  /\ LET r == ResolveDatasets(jobConfig, listing) IN
       IF r.err # NilErr
       THEN /\ ReturnErr(r.err)
            /\ UNCHANGED <<cacheVars, loadVars, loadFailed>>
       ELSE /\ orderedDatasets' = SlicesSort(r.datasets)
            /\ orderedNil' = FALSE
            /\ datasets' = <<>>
            /\ loopIdx' = 1
            /\ tasks' = [k \in 1..Len(r.datasets) |-> "new"]
            /\ ctxErr' = FALSE /\ gErr' = NilErr
            /\ lateDispatch' = 0 /\ lateStore' = {}
            /\ enumSorted' = (r.datasets = SlicesSort(r.datasets))
            /\ preloadRun' = runs
            /\ pc' = "dispatch"
            /\ UNCHANGED callVars
  /\ UNCHANGED <<cfgVars, sumVars, evalVars, resp, now, callsVars, histVars>>

\* jobDatasets: resolve, sort, allocate the cache and enter preloadSnapshots
JobDatasetsResolve(listing) ==
  /\ pc = "jobDatasets" /\ orderedNil
  /\ LET r == ResolveDatasets(jobConfig, listing) IN
       IF r.err # NilErr
       THEN /\ ReturnErr(r.err)
            /\ UNCHANGED <<cacheVars, loadVars, loadFailed>>
       ELSE /\ orderedDatasets' = SlicesSort(r.datasets)
            /\ orderedNil' = FALSE
            /\ datasets' = <<>>
            /\ loopIdx' = 1
            /\ tasks' = [k \in 1..Len(r.datasets) |-> "new"]
            /\ ctxErr' = FALSE /\ gErr' = NilErr
            /\ lateDispatch' = 0 /\ lateStore' = {}
            /\ enumSorted' = (r.datasets = SlicesSort(r.datasets))
            /\ preloadRun' = runs
            /\ pc' = "dispatch"
            /\ UNCHANGED callVars
  /\ UNCHANGED <<cfgVars, sumVars, evalVars, resp, now, callsVars, histVars>>

(***************************************************************************)
(* preloadSnapshots: an errgroup with limit maxProcs.                      *)
(***************************************************************************)
\* goroutines that hold a slot of the errgroup's semaphore
InFlight == {k \in DOMAIN tasks : tasks[k] \in {"listing", "loaded", "erred"}}

\* the for loop without `if ctx.Err() != nil { break }`
DispatchCheck_noCtxCheck ==
  /\ pc = "dispatch"
  /\ pc' = IF loopIdx > Len(orderedDatasets) THEN "wait" ELSE "go"
  /\ UNCHANGED <<cfgVars, sumVars, cacheVars, evalVars, loadVars, callVars,
                 resp, now, callsVars, histVars>>

\* the loop leaving out the last dataset
DispatchCheck_offByOne ==
  /\ pc = "dispatch"
  /\ pc' = IF loopIdx >= Len(orderedDatasets) \/ ctxErr THEN "wait" ELSE "go"
  /\ UNCHANGED <<cfgVars, sumVars, cacheVars, evalVars, loadVars, callVars,
                 resp, now, callsVars, histVars>>

\* head of the for loop: next dataset, and `if ctx.Err() != nil { break }`
DispatchCheck ==
  /\ pc = "dispatch"
  /\ pc' = IF loopIdx > Len(orderedDatasets) \/ ctxErr THEN "wait" ELSE "go"
  /\ UNCHANGED <<cfgVars, sumVars, cacheVars, evalVars, loadVars, callVars,
                 resp, now, callsVars, histVars>>

\* g.Go without g.SetLimit(self.maxProcs): never blocks
DispatchGo_noLimit ==
  /\ pc = "go"
  /\ tasks' = [tasks EXCEPT ![loopIdx] = "listing"]
  /\ loopIdx' = loopIdx + 1
  /\ lateDispatch' = IF ctxErr THEN lateDispatch + 1 ELSE lateDispatch
  /\ pc' = "dispatch"
  /\ UNCHANGED <<ctxErr, gErr, lateStore, enumSorted, preloadRun>>
  /\ UNCHANGED <<cfgVars, sumVars, cacheVars, evalVars, callVars, resp, now, callsVars, histVars>>

\* g.Go(...): blocks until a slot is free, then starts the goroutine
DispatchGo ==
  /\ pc = "go"
  /\ Cardinality(InFlight) < maxProcs
  /\ tasks' = [tasks EXCEPT ![loopIdx] = "listing"]
  /\ loopIdx' = loopIdx + 1
  /\ lateDispatch' = IF ctxErr THEN lateDispatch + 1 ELSE lateDispatch
  /\ pc' = "dispatch"
  /\ UNCHANGED <<ctxErr, gErr, lateStore, enumSorted, preloadRun>>
  /\ UNCHANGED <<cfgVars, sumVars, cacheVars, evalVars, callVars, resp, now, callsVars, histVars>>

\* zfsListSnapshots(ctx, dataset) in goroutine k returns the snapshots
ListOk(k) ==
  /\ k \in DOMAIN tasks /\ tasks[k] = "listing"
  /\ tasks' = [tasks EXCEPT ![k] = "loaded"]
  /\ UNCHANGED <<loopIdx, ctxErr, gErr, lateDispatch, lateStore,
                 enumSorted, preloadRun>>
  /\ UNCHANGED <<cfgVars, sumVars, cacheVars, evalVars, callVars,
                 resp, pc, now, callsVars, histVars>>

\* zfsListSnapshots(ctx, dataset) in goroutine k returns an error
ListFail(k) ==
  /\ k \in DOMAIN tasks /\ tasks[k] = "listing"
  /\ tasks' = [tasks EXCEPT ![k] = "erred"]
  /\ loadFailed' = TRUE
  /\ UNCHANGED <<loopIdx, ctxErr, gErr, lateDispatch, lateStore,
                 enumSorted, preloadRun>>
  /\ UNCHANGED <<job, jobConfig, runs, runStart, ret, runErr, startClean>>
  /\ UNCHANGED <<cfgVars, sumVars, cacheVars, evalVars, resp, pc, now, callsVars, histVars>>

\* a goroutine that drops its result once ctx is cancelled
Store_discardAfterCancel(k) ==
  /\ k \in DOMAIN tasks /\ tasks[k] = "loaded"
  /\ datasets' = IF ctxErr THEN datasets
                 ELSE (orderedDatasets[k]
                         :> InventorySnapshots(orderedDatasets[k])) @@ datasets
  /\ tasks' = [tasks EXCEPT ![k] = "done"]
  /\ lateStore' = IF ctxErr THEN lateStore \cup {k} ELSE lateStore
  /\ UNCHANGED <<orderedDatasets, orderedNil>>
  /\ UNCHANGED <<loopIdx, ctxErr, gErr, lateDispatch, enumSorted, preloadRun>>
  /\ UNCHANGED <<cfgVars, sumVars, evalVars, callVars, resp, pc, now, callsVars, histVars>>

\* mu.Lock(); self.datasets[dataset] = snapshots; mu.Unlock(); return nil
Store(k) ==
  /\ k \in DOMAIN tasks /\ tasks[k] = "loaded"
  /\ datasets' = (orderedDatasets[k] :> InventorySnapshots(orderedDatasets[k]))
                   @@ datasets
  /\ tasks' = [tasks EXCEPT ![k] = "done"]
  /\ lateStore' = IF ctxErr THEN lateStore \cup {k} ELSE lateStore
  /\ UNCHANGED <<orderedDatasets, orderedNil>>
  /\ UNCHANGED <<loopIdx, ctxErr, gErr, lateDispatch, enumSorted, preloadRun>>
  /\ UNCHANGED <<cfgVars, sumVars, evalVars, callVars, resp, pc, now, callsVars, histVars>>

\* an error group that keeps the last error returned
TaskErr_lastWins(k) ==
  /\ k \in DOMAIN tasks /\ tasks[k] = "erred"
  /\ gErr' = ErrLoad(orderedDatasets[k])
  /\ ctxErr' = TRUE
  /\ tasks' = [tasks EXCEPT ![k] = "failed"]
  /\ UNCHANGED <<loopIdx, lateDispatch, lateStore, enumSorted, preloadRun>>
  /\ UNCHANGED <<cfgVars, sumVars, cacheVars, evalVars, callVars,
                 resp, pc, now, callsVars, histVars>>

\* the goroutine returns err: errOnce keeps the first error and cancels ctx
TaskErr(k) ==
  /\ k \in DOMAIN tasks /\ tasks[k] = "erred"
  /\ gErr' = IF gErr = NilErr THEN ErrLoad(orderedDatasets[k]) ELSE gErr
  /\ ctxErr' = TRUE
  /\ tasks' = [tasks EXCEPT ![k] = "failed"]
  /\ UNCHANGED <<loopIdx, lateDispatch, lateStore, enumSorted, preloadRun>>
  /\ UNCHANGED <<cfgVars, sumVars, cacheVars, evalVars, callVars,
                 resp, pc, now, callsVars, histVars>>

\* a Wait that does not wait for the goroutines in flight
Wait_noBarrier ==
  /\ pc = "wait"
  /\ ctxErr' = TRUE
  /\ IF gErr # NilErr
     THEN ReturnErr(gErr) /\ UNCHANGED loadFailed
     ELSE pc' = "check" /\ UNCHANGED callVars
  /\ UNCHANGED <<loopIdx, tasks, gErr, lateDispatch, lateStore,
                 enumSorted, preloadRun>>
  /\ UNCHANGED <<cfgVars, sumVars, cacheVars, evalVars, resp, now, callsVars, histVars>>

\* g.Wait(): all goroutines are done; cancel ctx and return the first error
Wait ==
  /\ pc = "wait"
  /\ InFlight = {}
  /\ ctxErr' = TRUE
  /\ IF gErr # NilErr
     THEN ReturnErr(gErr) /\ UNCHANGED loadFailed
     ELSE pc' = "check" /\ UNCHANGED callVars
  /\ UNCHANGED <<loopIdx, tasks, gErr, lateDispatch, lateStore,
                 enumSorted, preloadRun>>
  /\ UNCHANGED <<cfgVars, sumVars, cacheVars, evalVars, resp, now, callsVars, histVars>>

(***************************************************************************)
(* checkCounts / checkCreation.                                            *)
(***************************************************************************)
St == [failed |-> failed, snapCount |-> snapCount, age |-> age,
       snapName |-> snapName, resp |-> resp]

SetSt(st) ==
  /\ failed' = st.failed /\ snapCount' = st.snapCount
  /\ age' = st.age /\ snapName' = st.snapName /\ resp' = st.resp

\* the rule list of this run: overrideCountRules or overrideAgeRules
RunRules ==
  IF counts
  THEN overrideCountRules(jobConfig, prefix, countWarn, countCrit)
  ELSE overrideAgeRules(rulesByCreation(jobConfig, oldest), prefix, warn, crit)

\* head of checkCounts / checkCreation: the rules, then the dataset loop
CheckBegin ==
  /\ pc = "check"
  /\ LET r == RunRules IN
       IF r.err # NilErr
       THEN /\ ReturnErr(r.err)
            /\ UNCHANGED <<rules, dsIdx>>
       ELSE /\ rules' = r.rules
            /\ dsIdx' = 1
            /\ IF Len(orderedDatasets) = 0
               THEN pc' = "summarise" /\ runErr' = NilErr
               ELSE pc' = "snapshots" /\ UNCHANGED runErr
            /\ UNCHANGED <<job, jobConfig, runs, runStart, ret, startClean>>
  /\ UNCHANGED <<ruleIdx, grouped, applied, loadFailed>>
  /\ UNCHANGED <<cfgVars, sumVars, cacheVars, loadVars, resp, now, callsVars, histVars>>

\* head of checkSnapsCounts / checkSnapsCreation for a cached dataset:
\* self.snapshots() hits the cache, then groupSnapshots
SnapshotsCached ==
  /\ pc = "snapshots"
  /\ orderedDatasets[dsIdx] \in DOMAIN datasets
  /\ grouped' = groupSnapshots(datasets[orderedDatasets[dsIdx]],
                               RulePrefixes(rules))
  /\ ruleIdx' = 1
  /\ pc' = "apply"
  /\ UNCHANGED <<rules, dsIdx, applied>>
  /\ UNCHANGED <<cfgVars, sumVars, cacheVars, loadVars, callVars, resp, now, callsVars, histVars>>

\* a snapshots() that returns the loaded list without storing it
SnapshotsLoad_noStore ==
  /\ pc = "snapshots"
  /\ orderedDatasets[dsIdx] \notin DOMAIN datasets
  /\ grouped' = groupSnapshots(InventorySnapshots(orderedDatasets[dsIdx]),
                               RulePrefixes(rules))
  /\ ruleIdx' = 1
  /\ pc' = "apply"
  /\ UNCHANGED <<datasets, orderedDatasets, orderedNil>>
  /\ UNCHANGED <<rules, dsIdx, applied>>
  /\ UNCHANGED <<cfgVars, sumVars, loadVars, callVars, resp, now, callsVars, histVars>>

\* self.snapshots() misses the cache: a synchronous load that succeeds
SnapshotsLoad ==
  /\ pc = "snapshots"
  /\ orderedDatasets[dsIdx] \notin DOMAIN datasets
  /\ LET fsName == orderedDatasets[dsIdx] IN
       /\ datasets' = (fsName :> InventorySnapshots(fsName)) @@ datasets
       /\ grouped' = groupSnapshots(InventorySnapshots(fsName),
                                    RulePrefixes(rules))
  /\ ruleIdx' = 1
  /\ pc' = "apply"
  /\ UNCHANGED <<orderedDatasets, orderedNil>>
  /\ UNCHANGED <<rules, dsIdx, applied>>
  /\ UNCHANGED <<cfgVars, sumVars, loadVars, callVars, resp, now, callsVars, histVars>>

\* self.snapshots() misses the cache and the load fails: Run returns err
SnapshotsLoadFail ==
  /\ pc = "snapshots"
  /\ orderedDatasets[dsIdx] \notin DOMAIN datasets
  /\ ReturnErr(ErrLoad(orderedDatasets[dsIdx]))
  /\ loadFailed' = TRUE
  /\ UNCHANGED <<cfgVars, sumVars, cacheVars, evalVars, loadVars, resp, now, callsVars, histVars>>

\* where the loops of checkCounts / checkSnapsCounts (checkCreation /
\* checkSnapsCreation) go after a rule returned cont: the next rule, else the
\* next dataset, else Run returns nil
\* the rule loop without its break: a non-OK verdict goes on to the next rule
RuleLoopNext_noBreak(cont, d, r, nRules, nDatasets) ==
  IF r < nRules
  THEN [pc |-> "apply", dsIdx |-> d, ruleIdx |-> r + 1]
  ELSE IF d < nDatasets
  THEN [pc |-> "snapshots", dsIdx |-> d + 1, ruleIdx |-> r]
  ELSE [pc |-> "summarise", dsIdx |-> d, ruleIdx |-> r]

\* a non-OK verdict ends the dataset loop as well
RuleLoopNext_stopRun(cont, d, r, nRules, nDatasets) ==
  IF cont /\ r < nRules
  THEN [pc |-> "apply", dsIdx |-> d, ruleIdx |-> r + 1]
  ELSE IF cont /\ d < nDatasets
  THEN [pc |-> "snapshots", dsIdx |-> d + 1, ruleIdx |-> r]
  ELSE [pc |-> "summarise", dsIdx |-> d, ruleIdx |-> r]

RuleLoopNext(cont, d, r, nRules, nDatasets) ==
  IF cont /\ r < nRules
  THEN [pc |-> "apply", dsIdx |-> d, ruleIdx |-> r + 1]
  ELSE IF d < nDatasets
  THEN [pc |-> "snapshots", dsIdx |-> d + 1, ruleIdx |-> r]
  ELSE [pc |-> "summarise", dsIdx |-> d, ruleIdx |-> r]

\* what applying rule ruleIdx to the current dataset does, the clock at t
ApplyCurrent(t) ==
  LET fsName == orderedDatasets[dsIdx]
      snaps == datasets[fsName]
      g == grouped[ruleIdx]
  IN IF counts
     THEN applyCountRule(St, job, rules[ruleIdx], fsName, g)
     ELSE applyCreationRule(St, job, oldest, rules[ruleIdx], snaps,
                            GroupSnapshot(g, oldest), fsName, t)

\* history record of one rule application
AppliedRec(t, a) ==
  LET snaps == datasets[orderedDatasets[dsIdx]]
      snap == GroupSnapshot(grouped[ruleIdx], oldest)
  IN [ds |-> dsIdx, rule |-> ruleIdx, cont |-> a.cont, t |-> t,
      emitted |-> Len(a.st.resp) - Len(resp),
      count |-> grouped[ruleIdx].Count,
      snap |-> IF snap = 0 THEN EmptyStr ELSE snaps[snap].Name,
      hasSnap |-> snap # 0,
      d |-> IF snap = 0 THEN 0
            ELSE TruncateSecond(t - snaps[snap].Creation),
      before |-> [snapCount |-> snapCount, age |-> age,
                  snapName |-> snapName]]

\* one iteration of the rule loop of checkSnapsCounts / checkSnapsCreation,
\* and the loop heads that follow it
ApplyRule(t) ==
  /\ pc = "apply"
  /\ now' = t
  /\ LET a == ApplyCurrent(t) IN
       /\ SetSt(a.st)
       /\ applied' = Append(applied, AppliedRec(t, a))
       /\ LET nxt == RuleLoopNext(a.cont, dsIdx, ruleIdx, Len(rules),
                                   Len(orderedDatasets)) IN
            /\ pc' = nxt.pc /\ dsIdx' = nxt.dsIdx /\ ruleIdx' = nxt.ruleIdx
            /\ runErr' = IF nxt.pc = "summarise" THEN NilErr ELSE runErr
  /\ UNCHANGED <<rules, grouped>>
  /\ UNCHANGED <<job, jobConfig, runs, runStart, ret, startClean, loadFailed>>
  /\ UNCHANGED <<cfgVars, cacheVars, loadVars, callsVars, histVars>>

\* Run returned nil: the switch of UpdateStatus, then return nil
Summarise ==
  /\ pc = "summarise"
  /\ SetSt(summarise(St, job, counts, oldest))
  /\ pc' = "idle" /\ ret' = NilErr
  /\ UNCHANGED <<job, jobConfig, runs, runStart, runErr, startClean,
                 loadFailed>>
  /\ UNCHANGED <<cfgVars, cacheVars, evalVars, loadVars, now, callsVars, histVars>>

\* a Reset that also forgets the loaded snapshots
Reset_dropsCache ==
  /\ pc = "idle"
  /\ age' = 0 /\ snapCount' = 0 /\ snapName' = EmptyStr /\ failed' = FALSE
  /\ datasets' = <<>>
  /\ lastReset' = runs
  /\ UNCHANGED <<orderedDatasets, orderedNil, prevApplied, prevRet>>
  /\ UNCHANGED <<cfgVars, evalVars, loadVars, callVars,
                 resp, pc, now, callsVars>>

\* a Reset that leaves snapCount alone
Reset_keepsSnapCount ==
  /\ pc = "idle"
  /\ age' = 0 /\ snapName' = EmptyStr /\ failed' = FALSE
  /\ lastReset' = runs
  /\ UNCHANGED <<snapCount, prevApplied, prevRet>>
  /\ UNCHANGED <<cfgVars, cacheVars, evalVars, loadVars, callVars,
                 resp, pc, now, callsVars>>

\* SnapCheck.Reset
Reset ==
  /\ pc = "idle"
  /\ age' = 0 /\ snapCount' = 0 /\ snapName' = EmptyStr /\ failed' = FALSE
  /\ lastReset' = runs
  /\ UNCHANGED <<prevApplied, prevRet>>
  /\ UNCHANGED <<cfgVars, cacheVars, evalVars, loadVars, callVars,
                 resp, pc, now, callsVars>>

(***************************************************************************)
(* The specification.                                                      *)
(***************************************************************************)
\* the clock readings a rule application can see: time does not go back
ClockReadings == { t \in Now0..(Now0 + ClockSpan) : t >= now }

Next ==
  \/ \E s \in Prefixes : WithPrefix(s)
  \/ \E th \in AgeThresholds : WithThresholds(th[1], th[2])
  \/ \E th \in CountThresholds : WithCountThresholds(th[1], th[2])
  \/ \E v \in BOOLEAN : WithOldest(v)
  \/ \E v \in BOOLEAN : WithCounts(v)
  \/ \E n \in 0..MaxProcsBound : WithMaxProcs(n)
  \/ \E j \in Jobs : UpdateStatus(j)
  \/ JobDatasetsCached
  \/ JobDatasetsFail
  \/ \E listing \in Listings : JobDatasetsResolve(listing)
  \/ DispatchCheck
  \/ DispatchGo
  \/ \E k \in DOMAIN tasks : ListOk(k)
  \/ \E k \in DOMAIN tasks : ListFail(k)
  \/ \E k \in DOMAIN tasks : Store(k)
  \/ \E k \in DOMAIN tasks : TaskErr(k)
  \/ Wait
  \/ CheckBegin
  \/ SnapshotsCached
  \/ SnapshotsLoad
  \/ SnapshotsLoadFail
  \/ \E t \in ClockReadings : ApplyRule(t)
  \/ Summarise
  \/ Reset

Spec == Init /\ [][Next]_vars

(***************************************************************************)
(* groupSnapshots called on snapshot lists and prefix lists of its own.    *)
(***************************************************************************)
MaxSnaps == 3
MaxPrefixes == 2

SnapE1 == <<101, 49>>   \* "e1"
GroupNames == {SnapD1, SnapD2, SnapH1, SnapE1}
GroupCreations == {1, 2}
GroupPrefixes == {EmptyStr, PfxD, SnapD1, PfxH}

SeqsUpTo(S, n) == UNION { [1..k -> S] : k \in 0..n }

\* snapshot lists of one filesystem: the names are unique
SnapLists ==
  { s \in SeqsUpTo({Snap(n, c) : n \in GroupNames, c \in GroupCreations},
                   MaxSnaps) :
      \A a, b \in DOMAIN s : s[a].Name = s[b].Name => a = b }

PrefixLists == SeqsUpTo(GroupPrefixes, MaxPrefixes)

GroupInit ==
  /\ NewSnapCheck /\ maxProcs = 1
  /\ gIn \in [snapshots : SnapLists, prefixes : PrefixLists]
  /\ gOut = [done |-> FALSE, grouped |-> <<>>]
  /\ rIn = [set |-> FALSE]
  /\ rOut = [done |-> FALSE]
  /\ NoLibCalls

\* grouped := groupSnapshots(snapshots, prefixes)
GroupCall ==
  /\ ~gOut.done
  /\ gOut' = [done |-> TRUE,
              grouped |-> groupSnapshots(gIn.snapshots, gIn.prefixes)]
  /\ UNCHANGED <<gIn, rIn, rOut, libVars>>
  /\ UNCHANGED <<cfgVars, sumVars, cacheVars, evalVars, loadVars, callVars,
                 resp, pc, now, histVars>>

GroupNext == GroupCall

SpecGroup == GroupInit /\ [][GroupNext]_vars

(***************************************************************************)
(* applyCountRule and applyCreationRule called on a SnapCheck, a rule and  *)
(* a group of their own.                                                   *)
(***************************************************************************)
MaxCount == 3

\* thresholds of a rule: counts, or durations that need not be whole seconds
CountLimits == 0..MaxCount
AgeLimits == 0..(2 * Second)

\* time.Since(snap.Creation) before truncation; the creation instant of a
\* received snapshot comes from the sender's clock and may lie ahead
RawAges == (0 - Second)..(2 * Second + 1)

RuleFs == FsPA

\* the receiver's summary fields before the call
RuleReceivers ==
  { [failed |-> f, snapCount |-> n, age |-> a,
     snapName |-> IF a = 0 THEN EmptyStr ELSE SnapD2, resp |-> <<>>] :
      f \in BOOLEAN, n \in {0, 1}, a \in {0, Second} }

CountCalls ==
  { [set |-> TRUE, counts |-> TRUE, old |-> FALSE, st |-> st,
     rule |-> Rule(p, w, c), count |-> n, hasSnap |-> n > 0, rawAge |-> 0] :
      st \in {r \in RuleReceivers : r.age = 0}, p \in Prefixes,
      w \in CountLimits, c \in CountLimits, n \in 0..MaxCount }

CreationCalls ==
  { [set |-> TRUE, counts |-> FALSE, old |-> o, st |-> st,
     rule |-> Rule(p, w, c), count |-> IF h THEN 1 ELSE 0, hasSnap |-> h,
     rawAge |-> a] :
      st \in {r \in RuleReceivers : r.snapCount = 0}, p \in Prefixes,
      w \in AgeLimits, c \in AgeLimits, o \in BOOLEAN, h \in BOOLEAN,
      a \in RawAges }

RuleInit ==
  /\ NewSnapCheck /\ maxProcs = 1
  /\ gIn = [snapshots |-> <<>>, prefixes |-> <<>>]
  /\ gOut = [done |-> FALSE, grouped |-> <<>>]
  /\ rIn \in CountCalls \cup CreationCalls
  /\ rOut = [done |-> FALSE]
  /\ NoLibCalls

\* the snapshot list the representative snapshot of the call points into
RuleSnapshots == << Snap(SnapD1, Now0 - rIn.rawAge) >>

\* ok := self.applyCountRule(rule, fsName, g)
CountRuleCall ==
  /\ rIn.set /\ rIn.counts /\ ~rOut.done
  /\ LET a == applyCountRule(rIn.st, "job", rIn.rule, RuleFs,
                              GroupItem(rIn.count, 0, 0))
     IN rOut' = [done |-> TRUE, cont |-> a.cont, st |-> a.st]
  /\ UNCHANGED <<gIn, gOut, rIn, libVars>>
  /\ UNCHANGED <<cfgVars, sumVars, cacheVars, evalVars, loadVars, callVars,
                 resp, pc, now, histVars>>

\* ok := self.applyCreationRule(rule, g.Snapshot(self.oldest), fsName)
CreationRuleCall ==
  /\ rIn.set /\ ~rIn.counts /\ ~rOut.done
  /\ LET a == applyCreationRule(rIn.st, "job", rIn.old, rIn.rule,
                                 RuleSnapshots,
                                 IF rIn.hasSnap THEN 1 ELSE 0, RuleFs, Now0)
     IN rOut' = [done |-> TRUE, cont |-> a.cont, st |-> a.st]
  /\ UNCHANGED <<gIn, gOut, rIn, libVars>>
  /\ UNCHANGED <<cfgVars, sumVars, cacheVars, evalVars, loadVars, callVars,
                 resp, pc, now, histVars>>

RuleNext ==
  \/ CountRuleCall
  \/ CreationRuleCall

SpecRule == RuleInit /\ [][RuleNext]_vars

(***************************************************************************)
(* jobDatasets' resolver and sort on inventories of their own.             *)
(***************************************************************************)
MaxListing == 4

\* what `zfs get placeholder` reports for a filesystem
PropValues ==
  { [Value |-> "on", Source |-> "local"],
    [Value |-> "on", Source |-> "inherited"],
    [Value |-> "off", Source |-> "local"],
    [Value |-> "", Source |-> "none"] }

ResolveJobs ==
  Jobs \cup { JobDef("pull2", "pull", {}, FsPA, Monitor(<<>>, <<>>, <<>>)),
              JobDef("sink2", "sink", {}, FsPA, Monitor(<<>>, <<>>, <<>>)) }

RootDriven(j) == j.type \in {"pull", "sink"}

\* what the job's listing can be: `zfs list` prints what the pool holds, in
\* the order it likes; propsByFS is a map, keyed by the names at and below
\* the root
JobListings(j) ==
  IF RootDriven(j)
  THEN { l \in SeqsUpTo({fs \in Filesystems : UnderRoot(fs, j.rootFs)},
                        MaxListing) :
           \A a, b \in DOMAIN l : l[a] = l[b] => a = b }
  ELSE SeqsUpTo(Filesystems, MaxListing)

JobProps(j) ==
  IF RootDriven(j)
  THEN { p \in [Filesystems -> PropValues] : p[FsPC] = PlaceholderProp(FsPC) }
  ELSE { InventoryProps }

ResolveInit ==
  /\ NewSnapCheck /\ maxProcs = 1
  /\ gIn = [snapshots |-> <<>>, prefixes |-> <<>>]
  /\ gOut = [done |-> FALSE, grouped |-> <<>>]
  /\ rIn = [set |-> FALSE]
  /\ rOut = [done |-> FALSE]
  /\ \E j \in ResolveJobs :
       dIn \in [set : {TRUE}, job : {j}, listing : JobListings(j),
                props : JobProps(j)]
  /\ dOut = [done |-> FALSE]
  /\ namer = [mtx |-> 0, active |-> <<>>]
  /\ holders = <<>>
  /\ cmd = NewCmd

\* jobDatasets up to `self.orderedDatasets = datasets`
ResolveCall ==
  /\ dIn.set /\ ~dOut.done
  /\ LET r == jobDatasetsSwitch(dIn.job, dIn.listing, dIn.props)
     IN dOut' = [done |-> TRUE, err |-> r.err,
                 orderedDatasets |-> SlicesSort(r.datasets)]
  /\ UNCHANGED <<gIn, gOut, rIn, rOut, dIn, namer, holders, cmd>>
  /\ UNCHANGED <<cfgVars, sumVars, cacheVars, evalVars, loadVars, callVars,
                 resp, pc, now, histVars>>

ResolveNext == ResolveCall

SpecResolve == ResolveInit /\ [][ResolveNext]_vars

(***************************************************************************)
(* uniqueConcurrentTaskNamer: goroutines that take a task name, hold it    *)
(* and give it back.                                                       *)
(***************************************************************************)
MaxCallers == 3
BitsetLen == 2          \* bitset.New(64), scaled down

Callers == 1..MaxCallers
TaskNames == {"a", "b"}

\* the fields of SnapCheck and of the calls above
snapCheckVars == <<cfgVars, sumVars, cacheVars, evalVars, loadVars, callVars,
                   resp, pc, now, histVars, gIn, gOut, rIn, rOut, dIn, dOut>>

IdleHolder == [pc |-> "idle", name |-> "", id |-> 0]

\* newUniqueTaskNamer
NamerInit ==
  /\ NewSnapCheck /\ maxProcs = 1
  /\ gIn = [snapshots |-> <<>>, prefixes |-> <<>>]
  /\ gOut = [done |-> FALSE, grouped |-> <<>>]
  /\ rIn = [set |-> FALSE]
  /\ rOut = [done |-> FALSE]
  /\ dIn = [set |-> FALSE]
  /\ dOut = [done |-> FALSE]
  /\ namer = [mtx |-> 0, active |-> <<>>]
  /\ holders = [c \in Callers |-> IdleHolder]
  /\ cmd = NewCmd

\* bitset.NextClear(0): the lowest clear bit below the length, if any
NextClear(act) ==
  LET clear == (0..(act.len - 1)) \ act.bits
  IN IF clear = {} THEN [ok |-> FALSE, id |-> 0]
     ELSE [ok |-> TRUE, id |-> CHOOSE i \in clear : \A k \in clear : i <= k]

\* bitset.Set(id): extends the set when id is beyond its length
BitSet(act, id) ==
  [bits |-> act.bits \cup {id},
   len |-> IF id >= act.len THEN id + 1 ELSE act.len]

\* bitset.Clear(id)
BitClear(act, id) == [act EXCEPT !.bits = act.bits \ {id}]

\* a Lock that does not wait for the mutex
NamerLock_noMutex(c, name) ==
  /\ holders[c].pc = "idle"
  /\ namer' = [namer EXCEPT !.mtx = c]
  /\ holders' = [holders EXCEPT ![c] = [pc |-> "locked", name |-> name,
                                        id |-> 0]]
  /\ UNCHANGED <<snapCheckVars, cmd>>

\* UniqueConcurrentTaskName(name): namer.mtx.Lock()
NamerLock(c, name) ==
  /\ holders[c].pc = "idle" /\ namer.mtx = 0
  /\ namer' = [namer EXCEPT !.mtx = c]
  /\ holders' = [holders EXCEPT ![c] = [pc |-> "locked", name |-> name,
                                        id |-> 0]]
  /\ UNCHANGED <<snapCheckVars, cmd>>

\* act := namer.active[name], made with bitset.New on first use;
\* id, ok := act.NextClear(0); if !ok { id = act.Len() }
NamerNextClear(c) ==
  /\ holders[c].pc = "locked"
  /\ LET name == holders[c].name
         act == IF name \in DOMAIN namer.active THEN namer.active[name]
                ELSE [bits |-> {}, len |-> BitsetLen]
         nc == NextClear(act)
     IN /\ namer' = [namer EXCEPT !.active = (name :> act) @@ namer.active]
        /\ holders' = [holders EXCEPT ![c].pc = "found",
                          ![c].id = IF nc.ok THEN nc.id ELSE act.len]
  /\ UNCHANGED <<snapCheckVars, cmd>>

\* act.Set(id)
NamerSet(c) ==
  /\ holders[c].pc = "found"
  /\ namer' = [namer EXCEPT !.active[holders[c].name] =
                  BitSet(namer.active[holders[c].name], holders[c].id)]
  /\ holders' = [holders EXCEPT ![c].pc = "set"]
  /\ UNCHANGED <<snapCheckVars, cmd>>

\* namer.mtx.Unlock(); return name#id and done
NamerUnlock(c) ==
  /\ holders[c].pc = "set"
  /\ namer' = [namer EXCEPT !.mtx = 0]
  /\ holders' = [holders EXCEPT ![c].pc = "holding"]
  /\ UNCHANGED <<snapCheckVars, cmd>>

\* done(): namer.mtx.Lock()
DoneLock(c) ==
  /\ holders[c].pc = "holding" /\ namer.mtx = 0
  /\ namer' = [namer EXCEPT !.mtx = c]
  /\ holders' = [holders EXCEPT ![c].pc = "done"]
  /\ UNCHANGED <<snapCheckVars, cmd>>

\* done(): act.Clear(id), and the deferred Unlock
DoneClear(c) ==
  /\ holders[c].pc = "done"
  /\ namer' = [namer EXCEPT !.mtx = 0,
                  !.active[holders[c].name] =
                    BitClear(namer.active[holders[c].name], holders[c].id)]
  /\ holders' = [holders EXCEPT ![c] = IdleHolder]
  /\ UNCHANGED <<snapCheckVars, cmd>>

NamerNext ==
  \/ \E c \in Callers, name \in TaskNames : NamerLock(c, name)
  \/ \E c \in Callers : NamerNextClear(c)
  \/ \E c \in Callers : NamerSet(c)
  \/ \E c \in Callers : NamerUnlock(c)
  \/ \E c \in Callers : DoneLock(c)
  \/ \E c \in Callers : DoneClear(c)

SpecNamer == NamerInit /\ [][NamerNext]_vars

(***************************************************************************)
(* zfscmd.Cmd: a caller that starts a command and asks for its process.    *)
(***************************************************************************)
MaxCmdCalls == 4

CmdInit ==
  /\ NewSnapCheck /\ maxProcs = 1
  /\ gIn = [snapshots |-> <<>>, prefixes |-> <<>>]
  /\ gOut = [done |-> FALSE, grouped |-> <<>>]
  /\ rIn = [set |-> FALSE]
  /\ rOut = [done |-> FALSE]
  /\ NoLibCalls

\* time.Now() of the call: the calls of one caller are at different instants
CmdNow == Len(cmd.log) + 1

\* Start(): c.cmd.Start() returns nil (ok) or an error, then startPost(err).
\* exec.Cmd.Start fails on a command that was started before.
CmdStart(ok) ==
  /\ Len(cmd.log) < MaxCmdCalls
  /\ ok => ~cmd.ran
  /\ cmd' = [cmd EXCEPT !.startedAt = CmdNow,
                        !.ran = cmd.ran \/ ok,
                        !.succeeded = cmd.succeeded \/ ok,
                        !.log = Append(cmd.log,
                                       IF ok THEN "StartOk" ELSE "StartErr")]
  /\ UNCHANGED <<snapCheckVars, namer, holders>>

\* CombinedOutput() / Output(): startPost(nil), then the command runs
CmdOutput ==
  /\ Len(cmd.log) < MaxCmdCalls
  /\ cmd' = [cmd EXCEPT !.startedAt = CmdNow,
                        !.ran = TRUE,
                        !.log = Append(cmd.log, "Output")]
  /\ UNCHANGED <<snapCheckVars, namer, holders>>

\* Process(): panics when startedAt is the zero time, else returns
\* c.cmd.Process
CmdProcess ==
  /\ Len(cmd.log) < MaxCmdCalls
  /\ cmd' = [cmd EXCEPT !.process = IF cmd.startedAt = 0 THEN "panic"
                                    ELSE "returned",
                        !.log = Append(cmd.log, "Process")]
  /\ UNCHANGED <<snapCheckVars, namer, holders>>

CmdNext ==
  \/ \E ok \in BOOLEAN : CmdStart(ok)
  \/ CmdOutput
  \/ CmdProcess

SpecCmd == CmdInit /\ [][CmdNext]_vars

(***************************************************************************)
(* Properties.                                                             *)
(***************************************************************************)
\* positions in resp of the updates sent during the current run
RunUpdates == (runStart + 1)..Len(resp)

NonOkSent == \E i \in RunUpdates : resp[i].sev # "OK"

\* the rule applications of the current run that gave a non-OK verdict
NonOkVerdicts == { i \in DOMAIN applied : ~applied[i].cont }

\* Run has returned nil and UpdateStatus has not yet summarised
RunReturnedNil == pc = "summarise"

\* UpdateStatus has returned nil
Done == pc = "idle" /\ ret = NilErr

\* C1: at the end of a Run that started from a cleared summary, failed is
\* true iff a WARNING or CRITICAL update was sent during the run, the
\* CRITICAL "has no snapshots with prefix" update included.
C1_FailedIffNonOkSent ==
  (RunReturnedNil /\ startClean) => (failed <=> NonOkSent)

\* C2: no OK summary is sent in a run in which a non-OK update was sent.
C2_NoOkSummaryAfterNonOk ==
  NonOkSent => \A i \in RunUpdates : resp[i].sev # "OK"

\* the OK summary UpdateStatus has to send in the current mode
IsSummary(u) ==
  /\ u.sev = "OK" /\ u.job = job
  /\ IF counts THEN u.kind = "allCount"
     ELSE u.kind = "age" /\ u.type = snapshotType(oldest)

\* every dataset of orderedDatasets had its first rule applied in this run
AllEvaluated ==
  \A d \in 1..Len(orderedDatasets) :
    \E i \in DOMAIN applied : applied[i].ds = d /\ applied[i].rule = 1

\* C3: when UpdateStatus returns nil after a run, started from a cleared
\* summary, in which no rule gave a non-OK verdict, exactly one OK update was
\* sent; it has the form of the mode, it is the last update and it came after
\* every dataset was evaluated.
C3_OneOkSummaryLast ==
  (Done /\ startClean /\ NonOkVerdicts = {}) =>
    /\ Cardinality({i \in RunUpdates : resp[i].sev = "OK"}) = 1
    /\ RunUpdates # {}
    /\ IsSummary(resp[Len(resp)])
    /\ AllEvaluated

\* a run with at least one dataset ended with the OK summary
C3_Witness ==
  /\ Done /\ startClean /\ NonOkVerdicts = {}
  /\ Len(orderedDatasets) >= 2 /\ Len(applied) >= 2
  /\ resp[Len(resp)].sev = "OK"

\* C4: per dataset the rules are applied in list order from the first one,
\* a non-OK verdict is the last rule application of its dataset (so a later
\* rule touches neither snapCount nor age/snapName), only a non-OK verdict
\* emits an update, and each dataset gets at most one non-OK update per run.
C4_ShortCircuit ==
  /\ \A i \in DOMAIN applied :
       /\ applied[i].emitted = (IF applied[i].cont THEN 0 ELSE 1)
       /\ i > 1 =>
            \/ /\ applied[i].ds = applied[i - 1].ds
               /\ applied[i].rule = applied[i - 1].rule + 1
               /\ applied[i - 1].cont
            \/ /\ applied[i].ds = applied[i - 1].ds + 1
               /\ applied[i].rule = 1
  /\ \A d \in 1..Len(orderedDatasets) :
       /\ Cardinality({i \in DOMAIN applied :
                         applied[i].ds = d /\ ~applied[i].cont}) <= 1
       /\ Cardinality({i \in RunUpdates :
                         /\ resp[i].sev # "OK"
                         /\ resp[i].fs = orderedDatasets[d]}) <= 1
  /\ Len(applied) > 0 => applied[1].ds = 1 /\ applied[1].rule = 1

\* a dataset stopped at its first rule although a second rule was configured
C4_Witness ==
  /\ Len(rules) >= 2
  /\ \E i \in DOMAIN applied :
       /\ ~applied[i].cont /\ applied[i].rule = 1
       /\ i < Len(applied) /\ applied[i + 1].ds = applied[i].ds + 1

\* C5: the updates of a run that name a dataset arrive in ascending
\* lexicographic order of the dataset name.
C5_UpdatesInDatasetOrder ==
  \A i, k \in RunUpdates :
    (i < k /\ resp[i].fs # EmptyStr /\ resp[k].fs # EmptyStr)
      => StrLeq(resp[i].fs, resp[k].fs)

\* two datasets got an update although the inventory listed them unsorted
C5_Witness ==
  /\ ~enumSorted
  /\ \E i, k \in RunUpdates :
       i < k /\ resp[i].fs # EmptyStr /\ StrLess(resp[i].fs, resp[k].fs)

\* UpdateStatus has returned, with nil or with an error
Returned == pc = "idle" /\ ret # NoRet

\* C6 as claimed: in a run over resolved datasets whose loads all succeed,
\* every dataset is evaluated from its first rule, whatever the verdicts of
\* the datasets before it, and Run returns nil.
C6_AllLoadsOkRunsThrough ==
  (Returned /\ ~loadFailed /\ ~orderedNil) => (ret = NilErr /\ AllEvaluated)

\* C6 amended: the same, for a run that has a rule list (an override prefix,
\* or a non-empty configured list of the mode).
C6_VerdictsDoNotStopRun ==
  (Returned /\ ~loadFailed /\ ~orderedNil /\ RunRules.err = NilErr)
    => (ret = NilErr /\ AllEvaluated)

\* a dataset got a non-OK verdict and the datasets after it were evaluated
C6_Witness ==
  /\ Done /\ ~loadFailed /\ AllEvaluated
  /\ \E i \in DOMAIN applied :
       ~applied[i].cont /\ applied[i].ds < Len(orderedDatasets)

\* the truncated ages of the representative snapshots evaluated in this run
EvaluatedAges == { applied[i].d : i \in {k \in DOMAIN applied :
                                             applied[k].hasSnap} }

SetMin(S) == CHOOSE x \in S : \A y \in S : x <= y
SetMax(S) == CHOOSE x \in S : \A y \in S : x >= y

\* C7: after an age-mode run, started from a cleared summary, in which every
\* rule was OK, age is the minimum (latest) or the maximum (oldest) of the
\* truncated ages evaluated, 0s included, and snapName names a snapshot of
\* that age.
C7_SummaryAgeIsExtreme ==
  (RunReturnedNil /\ ~counts /\ startClean /\ NonOkVerdicts = {}
     /\ EvaluatedAges # {}) =>
    /\ age = (IF oldest THEN SetMax(EvaluatedAges)
              ELSE SetMin(EvaluatedAges))
    /\ \E i \in DOMAIN applied :
         applied[i].hasSnap /\ applied[i].d = age
           /\ applied[i].snap = snapName

\* the rule list of the current run is being evaluated
Evaluating == pc \in {"snapshots", "apply", "summarise"}

\* the caller handed over an override with the setters of the mode
Supplied ==
  /\ "WithPrefix" \in called
  /\ (IF counts THEN "WithCountThresholds" ELSE "WithThresholds") \in called

OverrideRule ==
  IF counts THEN Rule(prefix, countWarn, countCrit)
  ELSE Rule(prefix, warn, crit)

ConfiguredRules ==
  IF counts THEN jobConfig.monitor.Count
  ELSE rulesByCreation(jobConfig, oldest)

\* C8 as claimed: whenever an override was supplied, with any prefix, the
\* rule list evaluated is the singleton built from it.
C8_OverrideAlwaysReplaces ==
  (Evaluating /\ Supplied) => rules = << OverrideRule >>

\* C8 amended: the override replaces the rule list exactly when its prefix is
\* not empty; with an empty prefix, supplied or not, the configured list of
\* the mode is evaluated and the thresholds of the override are ignored, and
\* the run fails with "no monitor rules or cli args defined" when that list
\* is empty.
C8_OverrideIffPrefixNonEmpty ==
  /\ Evaluating =>
       IF prefix # EmptyStr THEN rules = << OverrideRule >>
       ELSE rules = ConfiguredRules /\ Len(rules) > 0
  /\ (Returned /\ ret = ErrNoRules) =>
       (prefix = EmptyStr /\ Len(ConfiguredRules) = 0)
  /\ (Returned /\ ~orderedNil /\ ~loadFailed /\ prefix = EmptyStr
        /\ Len(ConfiguredRules) = 0) => ret = ErrNoRules

\* an override with a non-empty prefix replaced a configured rule list
C8_Witness ==
  /\ Evaluating /\ Supplied /\ prefix # EmptyStr
  /\ Len(ConfiguredRules) > 0 /\ rules # ConfiguredRules

\* preloadSnapshots of the current run has returned an error
PreloadFailed == Returned /\ preloadRun = runs /\ ret = gErr /\ gErr # NilErr

\* C9 as claimed: after a failed preload the cache holds no entry written by
\* a task that completed after cancellation was signalled.
C9_LateResultsDiscarded ==
  PreloadFailed =>
    \A k \in lateStore : orderedDatasets[k] \notin DOMAIN datasets

\* C9 amended: tasks in flight at cancellation run to completion and those
\* that load successfully still store their result: after a failed preload
\* the cache holds exactly the lists of the tasks whose load succeeded, the
\* ones that stored after cancellation included.
C9_LateResultsKept ==
  PreloadFailed =>
    /\ DOMAIN datasets = { orderedDatasets[k] :
                             k \in {i \in DOMAIN tasks : tasks[i] = "done"} }
    /\ \A k \in lateStore :
         /\ orderedDatasets[k] \in DOMAIN datasets
         /\ datasets[orderedDatasets[k]]
              = InventorySnapshots(orderedDatasets[k])
    /\ \A k \in DOMAIN tasks : tasks[k] \in {"new", "done", "failed"}

\* a task stored its list after cancellation and preload returned the error
C9_Witness == PreloadFailed /\ lateStore # {}

\* C10 as claimed: once a worker cancelled the token no further task is
\* dispatched.
C10_NoDispatchAfterCancel == lateDispatch = 0

\* C10 amended: the loop checks the token before each dispatch and stops once
\* it has seen it cancelled; a task whose check came before the cancellation
\* is still dispatched after it, so at most one task is dispatched after the
\* cancellation, and a task never started stays unstarted.
C10_AtMostOneDispatchAfterCancel ==
  /\ lateDispatch <= 1
  /\ (pc \notin {"dispatch", "go"}) =>
       \A k \in DOMAIN tasks : k >= loopIdx => tasks[k] = "new"

\* a task was dispatched after the cancellation, others were left unstarted
C10_Witness ==
  /\ lateDispatch = 1
  /\ \E k \in DOMAIN tasks : tasks[k] = "new"
  /\ pc = "wait"


\* C11: during preload the number of load tasks in flight never exceeds
\* maxProcs.
C11_InFlightBounded == Cardinality(InFlight) <= maxProcs

\* the pool is full and the dispatch loop is blocked in g.Go
C11_Witness ==
  /\ pc = "go" /\ loopIdx <= Len(orderedDatasets)
  /\ Cardinality(InFlight) = maxProcs /\ maxProcs >= 2

\* the current run went through preloadSnapshots and it returned nil
PreloadedOk ==
  /\ preloadRun = runs
  /\ pc \in {"check", "snapshots", "apply", "summarise"}

RefListing == CHOOSE l \in Listings : TRUE

RefDatasets == SlicesSort(ResolveDatasets(jobConfig, RefListing).datasets)

RefClock(i) == IF i \in DOMAIN applied THEN applied[i].t ELSE Now0

ClearedSt == [failed |-> FALSE, snapCount |-> 0, age |-> 0,
              snapName |-> EmptyStr, resp |-> <<>>]

RECURSIVE RefRun(_, _, _, _)
RefRun(d, r, i, st) ==
  IF d > Len(RefDatasets) THEN st
  ELSE LET fsName == RefDatasets[d]
           snaps == InventorySnapshots(fsName)
           rs == RunRules.rules
           g == groupSnapshots(snaps, RulePrefixes(rs))[r]
           a == IF counts
                THEN applyCountRule(st, job, rs[r], fsName, g)
                ELSE applyCreationRule(st, job, oldest, rs[r], snaps,
                                       GroupSnapshot(g, oldest), fsName,
                                       RefClock(i))
       IN IF a.cont /\ r < Len(rs)
          THEN RefRun(d, r + 1, i + 1, a.st)
          ELSE RefRun(d + 1, 1, i + 1, a.st)

RefUpdates == summarise(RefRun(1, 1, 1, ClearedSt), job, counts, oldest).resp

\* C13: the updates of a run without load error are those of the sequential
\* reference, whatever maxProcs is and however the loader's goroutines
\* interleave, and no rule is applied while preloadSnapshots is running.
C13_UpdatesIndependentOfLoader ==
  /\ (Done /\ startClean /\ ~loadFailed) =>
       SubSeq(resp, runStart + 1, Len(resp)) = RefUpdates
  /\ Len(applied) > 0 =>
       (pc \notin {"dispatch", "go", "wait"} /\ InFlight = {})

\* a run over three datasets loaded by two workers sent several updates
C13_Witness ==
  /\ Done /\ startClean /\ ~loadFailed /\ preloadRun = runs
  /\ maxProcs = 2 /\ Len(orderedDatasets) = 3
  /\ Len(resp) - runStart >= 2


\* workers of preloadSnapshots that returned an error to the group
FailedWorkers == {k \in DOMAIN tasks : tasks[k] = "failed"}

\* C14: a run in which a snapshot load failed returns a load error and sends
\* no OK update; a failed preload returns the group's error and evaluates no
\* dataset, a failed lazy load returns the error of its dataset and no later
\* dataset is evaluated; the group's error, once set by the first worker that
\* returned one, never changes.
C14_LoadErrorEndsRun ==
  /\ [](Returned /\ loadFailed =>
         /\ ret # NilErr /\ ret.kind = "load" /\ runErr = ret
         /\ \A i \in RunUpdates : resp[i].sev # "OK"
         /\ preloadRun = runs =>
              /\ ret = gErr /\ applied = <<>>
              /\ \E k \in FailedWorkers : ret = ErrLoad(orderedDatasets[k])
         /\ preloadRun # runs =>
              /\ ret = ErrLoad(orderedDatasets[dsIdx])
              /\ \A i \in DOMAIN applied : applied[i].ds < dsIdx)
  /\ [][gErr # NilErr => gErr' = gErr]_vars

\* a lazy load failed after a dataset was evaluated, on a SnapCheck whose
\* preload had failed in two workers
C14_Witness ==
  /\ Returned /\ loadFailed /\ preloadRun # runs
  /\ Len(applied) > 0
  /\ Cardinality(FailedWorkers) = 2


(***************************************************************************)
(* groupSnapshots.                                                         *)
(***************************************************************************)
\* prefix p matches name: p is empty or name begins with p
Matches(name, p) ==
  \/ p = EmptyStr
  \/ Len(p) <= Len(name) /\ \A b \in 1..Len(p) : name[b] = p[b]

\* the lowest index of a prefix of the call that matches snapshot k; 0 if none
FirstIdx(k) ==
  LET M == { j \in DOMAIN gIn.prefixes :
               Matches(gIn.snapshots[k].Name, gIn.prefixes[j]) }
  IN IF M = {} THEN 0 ELSE CHOOSE j \in M : \A m \in M : j <= m

\* the snapshots of the call that belong to group i
Members(i) == { k \in DOMAIN gIn.snapshots : FirstIdx(k) = i }

RECURSIVE SumCounts(_, _)
SumCounts(g, i) == IF i > Len(g) THEN 0 ELSE g[i].Count + SumCounts(g, i + 1)

\* prefix i comes after a prefix that matches every name prefix i matches
Shadowed(i) ==
  \E j \in 1..(i - 1) : Matches(gIn.prefixes[i], gIn.prefixes[j])

\* C15: groupSnapshots returns one group per prefix; group i counts the
\* snapshots whose first matching prefix is prefix i; the counts add up to the
\* number of snapshots some prefix matches; the group of a shadowed prefix
\* is empty.
C15_FirstMatch ==
  gOut.done =>
    /\ Len(gOut.grouped) = Len(gIn.prefixes)
    /\ \A i \in DOMAIN gOut.grouped :
         /\ gOut.grouped[i].Count = Cardinality(Members(i))
         /\ Shadowed(i) => gOut.grouped[i].Count = 0
    /\ SumCounts(gOut.grouped, 1) =
         Cardinality({ k \in DOMAIN gIn.snapshots : FirstIdx(k) # 0 })

\* "d" before "d1" with d1, d2 and a snapshot no prefix matches
C15_Witness ==
  /\ gOut.done
  /\ gIn.prefixes = <<PfxD, SnapD1>>
  /\ Len(gIn.snapshots) = 3
  /\ \E k \in DOMAIN gIn.snapshots : gIn.snapshots[k].Name = SnapD1
  /\ \E k \in DOMAIN gIn.snapshots : FirstIdx(k) = 0
  /\ gOut.grouped[1].Count = 2 /\ gOut.grouped[2].Count = 0

\* C16: in every group returned, Count is 0 iff Oldest is nil iff Latest is
\* nil; when Count > 0, Oldest and Latest point into the input list, at
\* members of the group, and Oldest was not created after Latest.
C16_AggregateSound ==
  gOut.done =>
    \A i \in DOMAIN gOut.grouped :
      LET g == gOut.grouped[i] IN
        /\ (g.Count = 0) <=> (g.Oldest = 0)
        /\ (g.Oldest = 0) <=> (g.Latest = 0)
        /\ g.Count > 0 =>
             /\ g.Oldest \in Members(i) /\ g.Latest \in Members(i)
             /\ gIn.snapshots[g.Oldest].Creation
                  <= gIn.snapshots[g.Latest].Creation

\* an empty group next to a group whose oldest and latest differ
C16_Witness ==
  /\ gOut.done /\ Len(gOut.grouped) = 2
  /\ gOut.grouped[1].Count = 0
  /\ gOut.grouped[2].Count = 3
  /\ gIn.snapshots[gOut.grouped[2].Oldest].Creation
       < gIn.snapshots[gOut.grouped[2].Latest].Creation

\* the first member in input order whose creation is the extreme one
FirstWith(i, c) ==
  CHOOSE k \in Members(i) :
    /\ gIn.snapshots[k].Creation = c
    /\ \A m \in Members(i) : gIn.snapshots[m].Creation = c => k <= m

MemberCreations(i) == { gIn.snapshots[k].Creation : k \in Members(i) }

\* C17: in a non-empty group Oldest is the first snapshot, in input order,
\* with the least creation of the group, and Latest the first one with the
\* greatest creation.
C17_FirstEncounteredWins ==
  gOut.done =>
    \A i \in DOMAIN gOut.grouped :
      Members(i) # {} =>
        /\ gOut.grouped[i].Oldest = FirstWith(i, SetMin(MemberCreations(i)))
        /\ gOut.grouped[i].Latest = FirstWith(i, SetMax(MemberCreations(i)))

\* a group of three in which two snapshots share the least creation and
\* the oldest is not the first snapshot
C17_Witness ==
  /\ gOut.done
  /\ \E i \in DOMAIN gOut.grouped :
       /\ Cardinality(Members(i)) = 3
       /\ gOut.grouped[i].Oldest = 2 /\ gOut.grouped[i].Latest = 1
       /\ gIn.snapshots[2].Creation = gIn.snapshots[3].Creation


(***************************************************************************)
(* applyCountRule and applyCreationRule.                                   *)
(***************************************************************************)
\* the updates the call sent
RuleSent == SubSeq(rOut.st.resp, Len(rIn.st.resp) + 1, Len(rOut.st.resp))

\* the call sent nothing and returned true
RuleContinues == RuleSent = <<>> /\ rOut.cont

\* the call sent one update, of severity sev, and returned false
RuleStops(sev) == Len(RuleSent) = 1 /\ RuleSent[1].sev = sev /\ ~rOut.cont

\* C18: applyCountRule takes the first of these that applies: an empty group
\* with an empty prefix sends nothing and continues; an empty group sends
\* CRITICAL and stops; a count >= Critical sends CRITICAL and stops; Warning >
\* 0 and a count >= Warning sends WARNING and stops; else nothing is sent,
\* snapCount grows by the count and the loop continues.
C18_CountRulePriority ==
  (rOut.done /\ rIn.counts) =>
    LET n == rIn.count
        rule == rIn.rule
    IN /\ IF n = 0 /\ rule.Prefix = EmptyStr
          THEN RuleContinues /\ rOut.st.snapCount = rIn.st.snapCount
          ELSE IF n = 0
          THEN RuleStops("CRITICAL") /\ rOut.st.snapCount = rIn.st.snapCount
          ELSE IF n >= rule.Critical
          THEN RuleStops("CRITICAL") /\ rOut.st.snapCount = rIn.st.snapCount
          ELSE IF rule.Warning > 0 /\ n >= rule.Warning
          THEN RuleStops("WARNING") /\ rOut.st.snapCount = rIn.st.snapCount
          ELSE RuleContinues /\ rOut.st.snapCount = rIn.st.snapCount + n
       /\ rule.Warning = 0 =>
            \A i \in DOMAIN RuleSent : RuleSent[i].sev # "WARNING"
       /\ (n > 0 /\ n >= rule.Critical /\ n >= rule.Warning) =>
            RuleStops("CRITICAL")

\* both thresholds reached, Warning below Critical: CRITICAL was sent
C18_Witness ==
  /\ rOut.done /\ rIn.counts
  /\ rIn.rule.Warning > 0 /\ rIn.rule.Warning < rIn.rule.Critical
  /\ rIn.count >= rIn.rule.Critical
  /\ RuleStops("CRITICAL")

\* the whole seconds of a duration: the multiple of Second next to it on the
\* side of zero
WholeSeconds(a) ==
  CHOOSE d \in { k * Second : k \in -2..3 } :
    /\ a >= 0 => (d <= a /\ a < d + Second)
    /\ a < 0 => (d >= a /\ a > d - Second)

\* C19: applyCreationRule, d the whole seconds of the snapshot's age, takes
\* the first of these that applies: no snapshot with an empty prefix sends
\* nothing and continues; no snapshot sends CRITICAL and stops; d >= Critical
\* sends CRITICAL and stops; Warning > 0 and d >= Warning sends WARNING and
\* stops; else the verdict is OK: nothing is sent, failed stays, the loop
\* continues.  An age less than a second below a positive Critical is not
\* CRITICAL.
C19_CreationRulePriority ==
  (rOut.done /\ ~rIn.counts) =>
    LET d == WholeSeconds(rIn.rawAge)
        rule == rIn.rule
    IN /\ IF ~rIn.hasSnap /\ rule.Prefix = EmptyStr
          THEN RuleContinues
          ELSE IF ~rIn.hasSnap
          THEN RuleStops("CRITICAL")
          ELSE IF d >= rule.Critical
          THEN RuleStops("CRITICAL") /\ RuleSent[1].n = d
          ELSE IF rule.Warning > 0 /\ d >= rule.Warning
          THEN RuleStops("WARNING") /\ RuleSent[1].n = d
          ELSE RuleContinues /\ rOut.st.failed = rIn.st.failed
       /\ ( /\ rIn.hasSnap /\ rule.Critical > 0
            /\ rIn.rawAge < rule.Critical
            /\ rIn.rawAge > rule.Critical - Second ) =>
            \A i \in DOMAIN RuleSent : RuleSent[i].sev # "CRITICAL"

\* an age a fraction of a second below Critical, with no Warning threshold:
\* the verdict is OK
C19_Witness ==
  /\ rOut.done /\ ~rIn.counts /\ rIn.hasSnap
  /\ rIn.rule.Critical = 2 * Second /\ rIn.rule.Warning = 0
  /\ rIn.rawAge = 2 * Second - 1
  /\ RuleContinues


(***************************************************************************)
(* Reset.                                                                  *)
(***************************************************************************)
\* between two calls, once the check has run, the caller can only Reset
ResetStep == pc = "idle" /\ pc' = "idle" /\ runs > 0

\* C20: Reset clears failed, age, snapName and snapCount, and leaves the
\* cache, orderedDatasets, the mode flags, the override, maxProcs and the
\* response as they are; it starts no listing and no snapshot load.
C20_ResetFrame ==
  [][ResetStep =>
       /\ failed' = FALSE /\ age' = 0
       /\ snapName' = EmptyStr /\ snapCount' = 0
       /\ UNCHANGED <<datasets, orderedDatasets, orderedNil>>
       /\ UNCHANGED <<counts, oldest, prefix, warn, crit, countWarn, countCrit,
                      maxProcs, resp>>
       /\ UNCHANGED <<loopIdx, tasks, ctxErr, gErr, job, jobConfig>>]_vars

\* after a run that sent a threshold verdict and set failed: failed is
\* clear again, the cache and the override are still there
C20_Witness ==
  /\ pc = "idle" /\ runs > 0 /\ ret = NilErr
  /\ \E i \in RunUpdates : resp[i].kind \in {"count", "tooOld"}
  /\ ~failed /\ age = 0 /\ snapCount = 0
  /\ DOMAIN datasets # {} /\ prefix # EmptyStr


(***************************************************************************)
(* Reset, then the same evaluation again.                                  *)
(***************************************************************************)
\* the updates of the first and of the second run of a SnapCheck
FirstRunUpdates == SubSeq(resp, 1, runStart)
SecondRunUpdates == SubSeq(resp, runStart + 1, Len(resp))

\* every rule application of both runs read the same instant from the clock
SameClock ==
  Cardinality({ applied[i].t : i \in DOMAIN applied }
              \cup { prevApplied[i].t : i \in DOMAIN prevApplied }) <= 1

\* the second run returned nil, after a first run that returned nil and a
\* Reset between the two
RerunAfterReset ==
  /\ runs = 2 /\ Done
  /\ prevRet = NilErr /\ lastReset = 1

\* C21: after a run that returned nil and a Reset, a second UpdateStatus with
\* the same rules, mode, clock and cache sends the updates the first one
\* sent, in the same order.
C21_ResetThenSameUpdates ==
  (RerunAfterReset /\ SameClock) => SecondRunUpdates = FirstRunUpdates

\* both runs sent a threshold verdict after a rule that was OK
C21_Witness ==
  /\ RerunAfterReset /\ SameClock
  /\ \E i, k \in DOMAIN prevApplied :
       i < k /\ prevApplied[i].cont /\ ~prevApplied[k].cont
  /\ Len(SecondRunUpdates) >= 2


(***************************************************************************)
(* jobDatasets: orderedDatasets.                                           *)
(***************************************************************************)
Resolved == dOut.done /\ dOut.err = NilErr

\* the number of '/'-separated segments of a dataset name
Segments(fs) == Cardinality({ k \in DOMAIN fs : fs[k] = 47 }) + 1

\* the names of the listing the resolver of the job has to accept
Accepted ==
  LET j == dIn.job
      skip == IF j.type = "sink" THEN 1 ELSE 0
  IN { dIn.listing[k] : k \in
         { i \in DOMAIN dIn.listing :
             IF RootDriven(j)
             THEN /\ Segments(dIn.listing[i]) >= Segments(j.rootFs) + 1 + skip
                  /\ ~ ( dIn.props[dIn.listing[i]].Value = "on"
                         /\ dIn.props[dIn.listing[i]].Source = "local" )
             ELSE dIn.listing[i] \in j.filesystems } }

\* byte strings in ascending order, as Go compares strings
Ascending(a, b) ==
  \/ \E k \in 1..Len(a) :
       /\ k <= Len(b) /\ a[k] < b[k]
       /\ \A i \in 1..(k - 1) : a[i] = b[i]
  \/ Len(a) <= Len(b) /\ \A i \in 1..Len(a) : a[i] = b[i]

C24_RootDrivenRetains ==
  (Resolved /\ RootDriven(dIn.job)) =>
    LET o == { dOut.orderedDatasets[i] : i \in DOMAIN dOut.orderedDatasets }
        root == dIn.job.rootFs
    IN /\ o = Accepted
       /\ root \notin o
       /\ dIn.job.type = "sink" =>
            \A fs \in o : Segments(fs) # Segments(root) + 1

\* a sink job whose root, client dataset and two deeper datasets are listed,
\* one of these a placeholder, the other with placeholder off
C24_Witness ==
  /\ Resolved /\ dIn.job.type = "sink" /\ dIn.job.rootFs = FsP
  /\ Len(dIn.listing) = 3
  /\ \E i \in DOMAIN dIn.listing : dIn.listing[i] = FsP
  /\ \E i \in DOMAIN dIn.listing : dIn.listing[i] = FsPB
  /\ dIn.props[FsPB] = [Value |-> "", Source |-> "none"]
  /\ dIn.props[FsPAX] = [Value |-> "off", Source |-> "local"]
  /\ dOut.orderedDatasets = << FsPAX >>


(***************************************************************************)
(* No rules.                                                               *)
(***************************************************************************)
\* no prefix was given and the job configures no rule for the mode
NoRulesAtAll == prefix = EmptyStr /\ Len(ConfiguredRules) = 0

\* C23: with no override and an empty configured rule list for the mode the
\* run evaluates no dataset and sends no update, and checkCounts /
\* checkCreation return 'no monitor rules or cli args defined', which
\* UpdateStatus returns.
C23_NoRulesIsError ==
  /\ []((runs > 0 /\ NoRulesAtAll) =>
         /\ applied = <<>> /\ RunUpdates = {}
         /\ pc \notin {"snapshots", "apply", "summarise"}
         /\ Returned => ret # NilErr)
  /\ [][(pc = "check" /\ NoRulesAtAll) =>
         (pc' = "idle" /\ ret' = ErrNoRules /\ runErr' = ErrNoRules
          /\ resp' = resp)]_vars

\* the sink job has no rules: its datasets were preloaded, then the run
\* ended with the error
C23_Witness ==
  /\ Returned /\ NoRulesAtAll /\ ret = ErrNoRules
  /\ preloadRun = runs /\ DOMAIN datasets # {}
  /\ counts


(***************************************************************************)
(* The count of the summary.                                               *)
(***************************************************************************)
\* the snapshots of dataset fs that some rule prefix of the run matches
MatchedSnapshots(fs) ==
  { k \in DOMAIN InventorySnapshots(fs) :
      \E r \in DOMAIN rules : Matches(InventorySnapshots(fs)[k].Name,
                                       rules[r].Prefix) }

RECURSIVE MatchedTotal(_)
MatchedTotal(d) ==
  IF d > Len(orderedDatasets) THEN 0
  ELSE Cardinality(MatchedSnapshots(orderedDatasets[d])) + MatchedTotal(d + 1)

\* every rule of every dataset was applied, and none gave a non-OK verdict
AllRulesOk ==
  /\ NonOkVerdicts = {}
  /\ \A d \in 1..Len(orderedDatasets) : \A r \in DOMAIN rules :
       \E i \in DOMAIN applied : applied[i].ds = d /\ applied[i].rule = r

\* C25: a count-mode run, started from a cleared summary, in which every
\* rule of every dataset was OK reports as N the number of snapshots, over
\* all datasets, that some rule prefix matches.
C25_CountIsSumOfGroups ==
  (Done /\ startClean /\ counts /\ NonOkVerdicts = {}) =>
    /\ AllRulesOk
    /\ resp[Len(resp)].kind = "allCount"
    /\ resp[Len(resp)].n = MatchedTotal(1)

\* two datasets with snapshots the prefix matches and snapshots it does not
C25_Witness ==
  /\ Done /\ startClean /\ counts /\ NonOkVerdicts = {}
  /\ Len(orderedDatasets) = 2
  /\ resp[Len(resp)].n = 3
  /\ \E k \in DOMAIN InventorySnapshots(orderedDatasets[1]) :
       k \notin MatchedSnapshots(orderedDatasets[1])


(***************************************************************************)
(* uniqueConcurrentTaskNamer.                                              *)
(***************************************************************************)
\* the goroutines that were given an id and have not run done to its end
Holding == { c \in Callers : holders[c].pc \in {"set", "holding", "done"} }

\* C27: at any moment the ids held for one name, by allocations whose done
\* has not been called, are pairwise distinct.
C27_HeldIdsDistinct ==
  \A c1, c2 \in Holding :
    (c1 # c2 /\ holders[c1].name = holders[c2].name) =>
      holders[c1].id # holders[c2].id

\* three goroutines hold the same name: all bits of the set are taken and
\* the third id is the set's former length; name "b" was taken and given
\* back before
C27_Witness ==
  /\ \A c \in Callers : holders[c].pc = "holding" /\ holders[c].name = "a"
  /\ { holders[c].id : c \in Callers } = 0..BitsetLen
  /\ holders[1].id = BitsetLen
  /\ "b" \in DOMAIN namer.active


(***************************************************************************)
(* zfscmd.Cmd.                                                             *)
(***************************************************************************)
\* the caller's last call was Process()
ProcessCalled == Len(cmd.log) > 0 /\ cmd.log[Len(cmd.log)] = "Process"

\* C28: Process() panics whenever no Start() of the Cmd has returned nil
\* before it.
C28_ProcessPanicsUnlessStarted ==
  (ProcessCalled /\ ~cmd.succeeded) => cmd.process = "panic"


(***************************************************************************)
(* snapshots(): the cache and the lazy load.                               *)
(***************************************************************************)
\* the dataset checkSnaps... asks snapshots() for
AskedFs == orderedDatasets[dsIdx]

\* C29: snapshots(fs) on a cached dataset hands out the cached list and
\* leaves the cache and the loader alone; on a dataset that is not cached it
\* either stores the loaded list and hands it out, or returns the load error
\* with the cache unchanged; an entry of the cache stays, so a later call
\* for the dataset finds it.
C29_SnapshotsCache ==
  /\ [][pc = "snapshots" =>
         IF AskedFs \in DOMAIN datasets
         THEN /\ pc' = "apply" /\ datasets' = datasets
              /\ grouped' = groupSnapshots(datasets[AskedFs],
                                           RulePrefixes(rules))
              /\ UNCHANGED <<tasks, loadFailed>>
         ELSE \/ /\ pc' = "apply"
                 /\ datasets' = (AskedFs :> InventorySnapshots(AskedFs))
                                   @@ datasets
                 /\ grouped' = groupSnapshots(InventorySnapshots(AskedFs),
                                              RulePrefixes(rules))
              \/ /\ pc' = "idle" /\ ret' = ErrLoad(AskedFs)
                 /\ datasets' = datasets]_vars
  /\ [][~orderedNil =>
         \A fs \in DOMAIN datasets :
           fs \in DOMAIN datasets' /\ datasets'[fs] = datasets[fs]]_vars

\* a dataset the failed preload of the first run did not store was loaded
\* by snapshots() in the second run, and its rules are being applied
C29_Witness ==
  /\ runs = 2 /\ preloadRun = 1 /\ pc = "apply"
  /\ tasks[dsIdx] # "done"
  /\ AskedFs \in DOMAIN datasets

(***************************************************************************)
(* jobDatasets: once.                                                      *)
(***************************************************************************)
\* C30: once jobDatasets has set orderedDatasets, also when the preload then
\* failed, orderedDatasets stays as it is and no later run resolves or
\* preloads: jobDatasets goes straight on to the check, which runs without
\* goroutines; while orderedDatasets is nil, because every resolve so far
\* failed, a run resolves.
C30_ResolveAndPreloadOnce ==
  /\ [][~orderedNil =>
         /\ orderedDatasets' = orderedDatasets /\ ~orderedNil'
         /\ preloadRun' = preloadRun
         /\ pc = "jobDatasets" =>
              (pc' = "check" /\ UNCHANGED <<tasks, datasets, gErr>>)]_vars
  /\ []((preloadRun > 0 /\ runs > preloadRun) =>
         (pc \notin {"dispatch", "go", "wait"} /\ InFlight = {}))
  /\ []((orderedNil /\ Returned) => ret \in {ErrResolve, ErrUnknownJob})
  /\ [][(pc = "jobDatasets" /\ orderedNil) =>
         \/ pc' = "dispatch" /\ ~orderedNil' /\ preloadRun' = runs
         \/ pc' = "idle" /\ ret' \in {ErrResolve, ErrUnknownJob}
                         /\ orderedNil']_vars

\* the first run's preload failed; the second run went through without
\* resolving or preloading and loaded what was missing
C30_Witness ==
  /\ Done /\ runs = 2 /\ preloadRun = 1
  /\ prevRet = gErr /\ gErr # NilErr
  /\ \E k \in DOMAIN tasks :
       tasks[k] # "done" /\ orderedDatasets[k] \in DOMAIN datasets


(***************************************************************************)
(* Runs with nothing to evaluate.                                          *)
(***************************************************************************)
\* the resolver gave the job an empty list of datasets
NoDatasets == ~orderedNil /\ Len(orderedDatasets) = 0

\* every dataset of the job was loaded and has no snapshots, and every rule
\* of the run has an empty prefix
AllBare ==
  /\ ~orderedNil /\ Len(orderedDatasets) > 0
  /\ \A d \in DOMAIN orderedDatasets :
       /\ orderedDatasets[d] \in DOMAIN datasets
       /\ datasets[orderedDatasets[d]] = <<>>
  /\ \A r \in DOMAIN RunRules.rules : RunRules.rules[r].Prefix = EmptyStr

\* UpdateStatus has returned from such a run, started from a cleared summary
EmptyRun == Returned /\ startClean /\ (NoDatasets \/ AllBare)

\* the run sent one update, the OK summary of the mode: count 0, or an
\* empty snapshot name with age 0s
OnlyEmptySummary ==
  /\ RunUpdates = {Len(resp)}
  /\ IsSummary(resp[Len(resp)])
  /\ resp[Len(resp)].n = 0
  /\ resp[Len(resp)].snap = EmptyStr

\* C31 as claimed: a run whose resolver returns no dataset, or whose
\* datasets all have no snapshots while every rule prefix is empty, returns
\* nil and sends exactly the OK summary with count 0 or with an empty
\* snapshot name and age 0s.
C31_EmptyRunReportsOk ==
  EmptyRun => (ret = NilErr /\ OnlyEmptySummary)

\* C31, amended: such a run returns nil and sends exactly that OK summary
\* when it has a rule list (a prefix was given or the job configures rules
\* for the mode); without one it sends nothing and UpdateStatus returns
\* 'no monitor rules or cli args defined'.
C31_EmptyRunOkIfRules ==
  EmptyRun =>
    IF NoRulesAtAll
    THEN ret = ErrNoRules /\ RunUpdates = {}
    ELSE ret = NilErr /\ OnlyEmptySummary

\* the latest snapshots of a job without datasets were checked against two
\* rules with prefixes: the summary names no snapshot and age 0s
C31_Witness ==
  /\ EmptyRun /\ NoDatasets /\ ~counts /\ ~oldest
  /\ prefix = EmptyStr /\ Len(ConfiguredRules) = 2
  /\ ret = NilErr /\ OnlyEmptySummary
  /\ resp[Len(resp)].kind = "age" /\ resp[Len(resp)].type = "latest"

====
